---- MODULE Spec2Model ----
(***************************************************************************)
(* A model of the canonicalization patterns and folders of the MLIR SCF    *)
(* dialect (SCF.cpp).  The IR is an arena of operations and blocks; each   *)
(* rewrite pattern is an operator from a graph and a root operation to a   *)
(* result [ok, g]; an interpreter gives programs their meaning in w-bit    *)
(* two's-complement arithmetic.                                            *)
(***************************************************************************)
EXTENDS Integers, Sequences, FiniteSets, TLC

\* ---------------------------------------------------------------- bounds
\* Bit width of the index type.
W == 3
\* Cap on the number of rewrites applied to one seed program.
MaxSteps == 13
\* Cap on the iterations an scf.while is executed for.
MaxIter == 2
\* Cap on the number of build calls in one run.
MaxBuilds == 2

Pow2W == 2 ^ W
MinInt == -(2 ^ (W - 1))
MaxInt == 2 ^ (W - 1) - 1
Ints == MinInt .. MaxInt
Bits == {0, 1}

\* ------------------------------------------------------- sequence helpers
Range(s) == {s[i] : i \in DOMAIN s}

MinOf(S) == CHOOSE x \in S : \A y \in S : x <= y

IndexOf(s, e) == MinOf({i \in DOMAIN s : s[i] = e})

RemoveAt(s, i) == SubSeq(s, 1, i - 1) \o SubSeq(s, i + 1, Len(s))

InsertSeqAt(s, i, t) == SubSeq(s, 1, i - 1) \o t \o SubSeq(s, i, Len(s))

\* The subsequence of s at the positions satisfying keep (a boolean sequence).
RECURSIVE Filter(_, _)
Filter(s, keep) ==
  IF s = <<>> THEN <<>>
  ELSE (IF Head(keep) THEN <<Head(s)>> ELSE <<>>) \o Filter(Tail(s), Tail(keep))

\* The number of positions up to i at which keep holds.
Count(keep, i) == Cardinality({j \in 1 .. i : keep[j]})

\* F applied to the value of x, with x evaluated once.
With(x, F(_)) == CHOOSE r \in {F(v) : v \in {x}} : TRUE

\* ------------------------------------------------------------ arithmetic
\* APInt of width W: the signed value of an integer modulo 2^W.
getSExtValue(x) ==
  LET m == x % Pow2W IN IF m >= 2 ^ (W - 1) THEN m - Pow2W ELSE m

getZExtValue(x) == x % Pow2W

\* ------------------------------------------------------------------ values
Res(o, i) == [k |-> "res", id |-> o, i |-> i]
Arg(b, i) == [k |-> "arg", id |-> b, i |-> i]
NullValue == [k |-> "null", id |-> 0, i |-> 0]

\* An operation record.  attr carries the op's attributes as integer lists:
\* for arith.constant <<value>>, for arith.cmpi <<predicate>>, for
\* scf.index_switch the case values, for test.op a label.
Operation(kind, operands, types, regions, attr) ==
  [kind |-> kind, operands |-> operands, types |-> types,
   regions |-> regions, attr |-> attr]

Block(args, ops) == [args |-> args, ops |-> ops]

\* Builders of the operations without regions.
ConstantOp(type, v) == Operation("arith.constant", <<>>, <<type>>, <<>>, <<v>>)
AddIOp(a, b) == Operation("arith.addi", <<a, b>>, <<"index">>, <<>>, <<>>)
XOrIOp(a, b) == Operation("arith.xori", <<a, b>>, <<"i1">>, <<>>, <<>>)
CmpIOp(pred, a, b) == Operation("arith.cmpi", <<a, b>>, <<"i1">>, <<>>, <<pred>>)
YieldOp(vs) == Operation("scf.yield", vs, <<>>, <<>>, <<>>)
ReturnOp(vs) == Operation("func.return", vs, <<>>, <<>>, <<>>)
TestOp(label, operands, types) == Operation("test.op", operands, types, <<>>, <<label>>)

getResults(G, o) == [i \in 1 .. Len(G.ops[o].types) |-> Res(o, i)]

getArguments(G, b) == [i \in 1 .. Len(G.blocks[b].args) |-> Arg(b, i)]

getNumResults(G, o) == Len(G.ops[o].types)

getType(G, v) ==
  IF v.k = "res" THEN G.ops[v.id].types[v.i]
  ELSE IF v.k = "arg" THEN G.blocks[v.id].args[v.i]
  ELSE "none"

\* --------------------------------------------------------------- structure
RegionBlocks(G, o) == UNION {Range(G.ops[o].regions[r]) : r \in DOMAIN G.ops[o].regions}

\* The block an operation is in; 0 when it is in none.
getBlock(G, o) ==
  LET bs == {b \in DOMAIN G.blocks : o \in Range(G.blocks[b].ops)}
  IN IF bs = {} THEN 0 ELSE CHOOSE b \in bs : TRUE

\* The operation owning a block; -1 when the block is detached.
getParentOp(G, b) ==
  LET os == {o \in DOMAIN G.ops : b \in RegionBlocks(G, o)}
  IN IF os = {} THEN -1 ELSE CHOOSE o \in os : TRUE

RECURSIVE NestedOps(_, _)
NestedOps(G, o) ==
  {o} \cup UNION {UNION {NestedOps(G, c) : c \in Range(G.blocks[b].ops) \cap DOMAIN G.ops}
                  : b \in RegionBlocks(G, o) \cap DOMAIN G.blocks}

NestedBlocks(G, o) ==
  UNION {RegionBlocks(G, c) : c \in NestedOps(G, o)} \cap DOMAIN G.blocks

\* The block or operation that defines a value.
getDefiningOp(G, v) == IF v.k = "res" THEN v.id ELSE -1

\* The operations of the region chain enclosing a value's definition: a
\* value is "defined inside" op o when its defining op or owning block is
\* nested in o.
isDefinedInside(G, v, o) ==
  \/ v.k = "res" /\ v.id \in NestedOps(G, o) \ {o}
  \/ v.k = "arg" /\ v.id \in NestedBlocks(G, o)

use_empty(G, v) ==
  \A o \in DOMAIN G.ops : \A j \in DOMAIN G.ops[o].operands : G.ops[o].operands[j] # v

\* The uses of a value as (operation, operand index) pairs.
getUses(G, v) ==
  UNION {{<<o, j>> : j \in {i \in DOMAIN G.ops[o].operands : G.ops[o].operands[i] = v}}
         : o \in DOMAIN G.ops}

hasOneUse(G, v) == Cardinality(getUses(G, v)) = 1

getTerminator(G, b) == G.blocks[b].ops[Len(G.blocks[b].ops)]

\* The operation before o in its block; -1 when o is the first.
getPrevNode(G, o) ==
  LET b == getBlock(G, o)
      pos == IndexOf(G.blocks[b].ops, o)
  IN IF pos = 1 THEN -1 ELSE G.blocks[b].ops[pos - 1]

\* ------------------------------------------------------ rewriter primitives
replaceAllUsesWith(G, from, to) ==
  [G EXCEPT !.ops =
     [o \in DOMAIN G.ops |->
        [G.ops[o] EXCEPT !.operands =
           [j \in DOMAIN G.ops[o].operands |->
              IF G.ops[o].operands[j] = from THEN to ELSE G.ops[o].operands[j]]]]]

\* Pairwise replacement of a range of values, in order.
RECURSIVE replaceAllUsesWithRange(_, _, _)
replaceAllUsesWithRange(G, from, to) ==
  IF from = <<>> \/ to = <<>> THEN G
  ELSE replaceAllUsesWithRange(replaceAllUsesWith(G, Head(from), Head(to)),
                               Tail(from), Tail(to))

\* Replace the uses of `from` that are operands of operations in `within`.
replaceUsesWithIf(G, from, to, within) ==
  [G EXCEPT !.ops =
     [o \in DOMAIN G.ops |->
        IF o \in within
        THEN [G.ops[o] EXCEPT !.operands =
                [j \in DOMAIN G.ops[o].operands |->
                   IF G.ops[o].operands[j] = from THEN to ELSE G.ops[o].operands[j]]]
        ELSE G.ops[o]]]

eraseOp(G, o) ==
  LET dead  == NestedOps(G, o)
      deadB == NestedBlocks(G, o)
  IN [G EXCEPT
        !.ops = [p \in DOMAIN G.ops \ dead |-> G.ops[p]],
        !.blocks = [b \in DOMAIN G.blocks \ deadB |->
                      [G.blocks[b] EXCEPT !.ops = SelectSeq(G.blocks[b].ops, LAMBDA p : p # o)]]]

replaceOp(G, o, newValues) ==
  eraseOp(replaceAllUsesWithRange(G, getResults(G, o), newValues), o)

\* Unlink block b from the region that holds it.
unlinkBlock(G, b) ==
  [G EXCEPT !.ops =
     [o \in DOMAIN G.ops |->
        [G.ops[o] EXCEPT !.regions =
           [r \in DOMAIN G.ops[o].regions |->
              SelectSeq(G.ops[o].regions[r], LAMBDA x : x # b)]]]]

\* Move the operations of block src before operation `before`, replacing the
\* arguments of src by argValues, and delete src.
inlineBlockBefore(G, src, before, argValues) ==
  LET G1   == replaceAllUsesWithRange(G, getArguments(G, src), argValues)
      dest == getBlock(G1, before)
      pos  == IndexOf(G1.blocks[dest].ops, before)
      G2   == unlinkBlock(G1, src)
  IN [G2 EXCEPT
        !.blocks = [b \in DOMAIN G2.blocks \ {src} |->
                      IF b = dest
                      THEN [G2.blocks[b] EXCEPT !.ops = InsertSeqAt(@, pos, G1.blocks[src].ops)]
                      ELSE G2.blocks[b]]]

\* Append the operations of block src to block dest and delete src.
mergeBlocks(G, src, dest, argValues) ==
  LET G1 == replaceAllUsesWithRange(G, getArguments(G, src), argValues)
      G2 == unlinkBlock(G1, src)
  IN [G2 EXCEPT
        !.blocks = [b \in DOMAIN G2.blocks \ {src} |->
                      IF b = dest
                      THEN [G2.blocks[b] EXCEPT !.ops = @ \o G1.blocks[src].ops]
                      ELSE G2.blocks[b]]]

\* Create an operation before `before`; its id is G.next.
createBefore(G, before, rec) ==
  LET dest == getBlock(G, before)
      pos  == IndexOf(G.blocks[dest].ops, before)
  IN [ops |-> (G.next :> rec) @@ G.ops,
      blocks |-> [G.blocks EXCEPT ![dest].ops = InsertSeqAt(@, pos, <<G.next>>)],
      next |-> G.next + 1]

\* Create an operation at the end of block dest; its id is G.next.
createAtEnd(G, dest, rec) ==
  [ops |-> (G.next :> rec) @@ G.ops,
   blocks |-> [G.blocks EXCEPT ![dest].ops = Append(@, G.next)],
   next |-> G.next + 1]

\* Create an empty block with the given argument types as the last block of
\* region r of operation o; its id is G.next.
createBlock(G, o, r, argTypes) ==
  [ops |-> [G.ops EXCEPT ![o].regions[r] = Append(@, G.next)],
   blocks |-> (G.next :> Block(argTypes, <<>>)) @@ G.blocks,
   next |-> G.next + 1]

\* Replace `op` by the operations of its single block (SCF.cpp
\* replaceOpWithRegion): the terminator's operands replace the results.
replaceOpWithRegion(G, op, block, blockArgs) ==
  LET terminator == getTerminator(G, block)
      G1 == inlineBlockBefore(G, block, op, blockArgs)
      results == G1.ops[terminator].operands
      G2 == replaceOp(G1, op, results)
  IN eraseOp(G2, terminator)

\* ---------------------------------------------------------------- matchers
isConstant(G, v) == v.k = "res" /\ v.id \in DOMAIN G.ops /\ G.ops[v.id].kind = "arith.constant"

constantValue(G, v) == G.ops[v.id].attr[1]

\* getConstantIntValue: the signed value of a constant, or "none".
hasConstantIntValue(G, v) == isConstant(G, v)

getConstantIntValue(G, v) == getSExtValue(constantValue(G, v))

Failure(G) == [ok |-> FALSE, g |-> G, ub |-> FALSE]
Success(G) == [ok |-> TRUE, g |-> G, ub |-> FALSE]

\* The pattern dereferences something that is not there (the block of a region
\* without blocks): the behaviour of the build is undefined from here on.
Undefined(G) == [ok |-> FALSE, g |-> G, ub |-> TRUE]

\* ------------------------------------------------------- scf.execute_region
\* One region of one or more blocks; inner blocks end in cf.br, whose attr
\* holds the successor block, or in scf.yield.
hasOneBlock(G, o, r) == Len(G.ops[o].regions[r]) = 1

BranchOp(dest, operands) == Operation("cf.br", operands, <<>>, <<>>, <<dest>>)

\* SingleBlockExecuteInliner: an execute_region of one block is replaced by
\* the operations of that block.
SingleBlockExecuteInliner(G, op) ==
  IF ~hasOneBlock(G, op, 1) THEN Failure(G)
  ELSE Success(replaceOpWithRegion(G, op, G.ops[op].regions[1][1], <<>>))

\* Split block b before operation `before`: the operations from `before` on
\* move to a new block (id G.next) placed right after b in its region.
splitBlock(G, b, before) ==
  LET pos == IndexOf(G.blocks[b].ops, before)
      nb  == G.next
  IN [ops |-> [o \in DOMAIN G.ops |->
                 [G.ops[o] EXCEPT !.regions =
                    [r \in DOMAIN G.ops[o].regions |->
                       IF b \in Range(G.ops[o].regions[r])
                       THEN InsertSeqAt(G.ops[o].regions[r],
                                        IndexOf(G.ops[o].regions[r], b) + 1, <<nb>>)
                       ELSE G.ops[o].regions[r]]]],
      blocks |-> (nb :> Block(<<>>, SubSeq(G.blocks[b].ops, pos, Len(G.blocks[b].ops))))
                 @@ [G.blocks EXCEPT ![b].ops = SubSeq(@, 1, pos - 1)],
      next |-> G.next + 1]

\* Move the blocks of region sr of operation s before block `before`.
inlineRegionBeforeBlock(G, s, sr, before) ==
  [G EXCEPT !.ops =
     [o \in DOMAIN G.ops |->
        [G.ops[o] EXCEPT !.regions =
           [r \in DOMAIN G.ops[o].regions |->
              IF before \in Range(G.ops[o].regions[r])
              THEN InsertSeqAt(G.ops[o].regions[r], IndexOf(G.ops[o].regions[r], before),
                               G.ops[s].regions[sr])
              ELSE IF o = s /\ r = sr THEN <<>>
              ELSE G.ops[o].regions[r]]]]]

addArguments(G, b, types) == [G EXCEPT !.blocks[b].args = @ \o types]

\* Every scf.yield that ends one of the blocks bs becomes a branch to
\* postBlock carrying the yielded values.
RECURSIVE YieldsToBranches(_, _, _)
YieldsToBranches(G, bs, postBlock) ==
  IF bs = <<>> THEN G
  ELSE LET t == getTerminator(G, Head(bs))
       IN IF G.ops[t].kind # "scf.yield" THEN YieldsToBranches(G, Tail(bs), postBlock)
          ELSE YieldsToBranches(
                 eraseOp(createBefore(G, t, BranchOp(postBlock, G.ops[t].operands)), t),
                 Tail(bs), postBlock)

\* MultiBlockExecuteInliner: inline the blocks of an execute_region into a
\* parent that can hold several blocks.
MultiBlockExecuteInliner(G, op) ==
  LET prevBlock == getBlock(G, op)
      parentOp  == getParentOp(G, prevBlock)
      postBlock == G.next
      front     == G.ops[op].regions[1][1]
  IN IF G.ops[parentOp].kind \notin {"func.func", "scf.execute_region"} THEN Failure(G)
     ELSE With(createAtEnd(splitBlock(G, prevBlock, op), prevBlock, BranchOp(front, <<>>)),
               LAMBDA A :
          With(YieldsToBranches(A, A.ops[op].regions[1], postBlock), LAMBDA B :
          With(addArguments(inlineRegionBeforeBlock(B, op, 1, postBlock),
                            postBlock, B.ops[op].types), LAMBDA C :
          Success(replaceOp(C, op, getArguments(C, postBlock))))))

\* ------------------------------------------------------------------ scf.for
\* operands: <<lb, ub, step>> \o inits; one region with one block whose
\* arguments are the induction variable and the iter args.
getLowerBound(G, o) == G.ops[o].operands[1]
getUpperBound(G, o) == G.ops[o].operands[2]
getStep(G, o) == G.ops[o].operands[3]
getInitArgs(G, o) == SubSeq(G.ops[o].operands, 4, Len(G.ops[o].operands))
getBody(G, o) == G.ops[o].regions[1][1]
getYieldedValues(G, o) == G.ops[getTerminator(G, getBody(G, o))].operands

\* computeConstDiff (SCF.cpp): the difference u - l when both are constants
\* (APInt subtraction in the width of the type) or u = l + c.
computeConstDiff(G, l, u) ==
  IF isConstant(G, l) /\ isConstant(G, u)
  THEN [known |-> TRUE, diff |-> getSExtValue(constantValue(G, u) - constantValue(G, l))]
  ELSE IF /\ u.k = "res" /\ G.ops[u.id].kind = "arith.addi"
          /\ G.ops[u.id].operands[1] = l /\ isConstant(G, G.ops[u.id].operands[2])
  THEN [known |-> TRUE, diff |-> getSExtValue(constantValue(G, G.ops[u.id].operands[2]))]
  ELSE IF /\ u.k = "res" /\ G.ops[u.id].kind = "arith.addi"
          /\ G.ops[u.id].operands[2] = l /\ isConstant(G, G.ops[u.id].operands[1])
  THEN [known |-> TRUE, diff |-> getSExtValue(constantValue(G, G.ops[u.id].operands[1]))]
  ELSE [known |-> FALSE, diff |-> 0]

\* SimplifyTrivialLoops: remove loops that execute zero times or once.
SimplifyTrivialLoops(G, op) ==
  LET lb == getLowerBound(G, op)
      ub == getUpperBound(G, op)
      d  == computeConstDiff(G, lb, ub)
      block == getBody(G, op)
  IN IF lb = ub THEN Success(replaceOp(G, op, getInitArgs(G, op)))
     ELSE IF ~d.known THEN Failure(G)
     ELSE IF d.diff <= 0 THEN Success(replaceOp(G, op, getInitArgs(G, op)))
     ELSE IF ~isConstant(G, getStep(G, op)) THEN Failure(G)
     ELSE IF getSExtValue(constantValue(G, getStep(G, op))) >= d.diff
     THEN Success(replaceOpWithRegion(G, op, block, <<lb>> \o getInitArgs(G, op)))
     ELSE IF Len(G.blocks[block].ops) # 1 THEN Failure(G)
     ELSE IF \E j \in DOMAIN getYieldedValues(G, op) :
               isDefinedInside(G, getYieldedValues(G, op)[j], op)
     THEN Failure(G)
     ELSE Success(replaceOp(G, op, getYieldedValues(G, op)))

\* ForOp::build without a body callback: the body block gets the induction
\* variable and one argument per init value, and a terminator only when
\* there are no init values.  The op is G.next, its block G.next + 1.
ForOp_build(G, before, lb, ub, step, initArgs) ==
  LET types == [i \in DOMAIN initArgs |-> getType(G, initArgs[i])]
      A == createBefore(G, before,
                        Operation("scf.for", <<lb, ub, step>> \o initArgs, types,
                                  <<<<>>>>, <<>>))
      B == createBlock(A, G.next, 1, <<getType(G, lb)>> \o types)
  IN IF initArgs = <<>> THEN createAtEnd(B, G.next + 1, YieldOp(<<>>)) ELSE B

getRegionIterArgs(G, o) == Tail(getArguments(G, getBody(G, o)))

\* The number of null placeholders among the first i entries of vs.
CountNull(vs, i) == Cardinality({j \in 1 .. i : vs[j] = NullValue})

\* The scan of ForOpIterArgsFolder over the iter args from position idx on.
\* acc.initYieldToArg lists the kept (init, yielded) pairs with their region
\* argument and result.
RECURSIVE ForOpIterArgsScan(_, _, _, _)
ForOpIterArgsScan(G, forOp, idx, acc) ==
  IF idx > getNumResults(G, forOp) THEN [g |-> G, acc |-> acc]
  ELSE LET init    == getInitArgs(G, forOp)[idx]
           arg     == getRegionIterArgs(G, forOp)[idx]
           result  == Res(forOp, idx)
           yielded == getYieldedValues(G, forOp)[idx]
           forwarded == \/ arg = yielded
                        \/ init = yielded
                        \/ use_empty(G, arg) /\ use_empty(G, result)
           found == {k \in DOMAIN acc.initYieldToArg :
                       /\ acc.initYieldToArg[k].init = init
                       /\ acc.initYieldToArg[k].yielded = yielded}
           it == acc.initYieldToArg[CHOOSE k \in found : TRUE]
           dropped == [acc EXCEPT !.canonicalize = TRUE,
                                  !.keepMask = Append(@, FALSE),
                                  !.newBlockTransferArgs = Append(@, init),
                                  !.newResultValues = Append(@, init)]
       IN IF forwarded THEN ForOpIterArgsScan(G, forOp, idx + 1, dropped)
          ELSE IF found # {}
          THEN With(replaceAllUsesWith(replaceAllUsesWith(G, arg, it.arg), result, it.result),
                    LAMBDA A : ForOpIterArgsScan(A, forOp, idx + 1, dropped))
          ELSE ForOpIterArgsScan(G, forOp, idx + 1,
                 [acc EXCEPT !.initYieldToArg =
                                Append(@, [init |-> init, yielded |-> yielded,
                                           arg |-> arg, result |-> result]),
                             !.keepMask = Append(@, TRUE),
                             !.newIterArgs = Append(@, init),
                             !.newYieldValues = Append(@, yielded),
                             !.newBlockTransferArgs = Append(@, NullValue),
                             !.newResultValues = Append(@, NullValue)])

\* The rewrite of ForOpIterArgsFolder once the scan found something to fold.
ForOpIterArgsRewrite(G, forOp, acc) ==
  LET newForOp == G.next
      newBlock == G.next + 1
      oldBlock == getBody(G, forOp)
      e == Len(acc.newResultValues)
      newBlockTransferArgs ==
        <<Arg(newBlock, 1)>> \o
        [idx \in 1 .. e |->
           IF acc.newBlockTransferArgs[idx + 1] = NullValue
           THEN Arg(newBlock, 1 + CountNull(acc.newResultValues, idx))
           ELSE acc.newBlockTransferArgs[idx + 1]]
      newResultValues ==
        [idx \in 1 .. e |->
           IF acc.newResultValues[idx] = NullValue
           THEN Res(newForOp, CountNull(acc.newResultValues, idx))
           ELSE acc.newResultValues[idx]]
  IN With(ForOp_build(G, forOp, getLowerBound(G, forOp), getUpperBound(G, forOp),
                      getStep(G, forOp), acc.newIterArgs), LAMBDA A :
       IF acc.newIterArgs = <<>>
       THEN With(inlineBlockBefore(A, oldBlock, getTerminator(A, newBlock),
                                   newBlockTransferArgs), LAMBDA B :
              Success(replaceOp(eraseOp(B, getPrevNode(B, getTerminator(B, newBlock))),
                                forOp, newResultValues)))
       ELSE With(mergeBlocks(A, oldBlock, newBlock, newBlockTransferArgs), LAMBDA B :
            With(createBefore(B, getTerminator(B, newBlock),
                              YieldOp(Filter(B.ops[getTerminator(B, newBlock)].operands,
                                             acc.keepMask))), LAMBDA C :
              Success(replaceOp(eraseOp(C, getTerminator(B, newBlock)),
                                forOp, newResultValues)))))

\* ForOpIterArgsFolder: fold away iter args that are forwarded (the region
\* argument or the init value is yielded, or neither argument nor result is
\* used) or that repeat the init and yielded values of an earlier iter arg.
ForOpIterArgsFolder(G, forOp) ==
  With(ForOpIterArgsScan(G, forOp, 1,
                         [canonicalize |-> FALSE, keepMask |-> <<>>,
                          newBlockTransferArgs |-> <<NullValue>>, newIterArgs |-> <<>>,
                          newYieldValues |-> <<>>, newResultValues |-> <<>>,
                          initYieldToArg |-> <<>>]),
       LAMBDA s : IF ~s.acc.canonicalize THEN Failure(s.g)
                  ELSE ForOpIterArgsRewrite(s.g, forOp, s.acc))

\* Tensor types are "tensor<4>" (static shape) and "tensor<?>" (dynamic
\* shape) of one rank and element type.
CastOp(type, source) == Operation("tensor.cast", <<source>>, <<type>>, <<>>, <<>>)

isCastOp(G, v) == v.k = "res" /\ G.ops[v.id].kind = "tensor.cast"

\* tensor::preservesStaticInformation(source, target): target keeps every
\* static dimension of source.
preservesStaticInformation(source, target) ==
  /\ source \in {"tensor<4>", "tensor<?>"}
  /\ target \in {"tensor<4>", "tensor<?>"}
  /\ ~(source = "tensor<4>" /\ target = "tensor<?>")

\* Create an operation right after operation `after`; its id is G.next.
createAfter(G, after, rec) ==
  LET dest == getBlock(G, after)
      pos  == IndexOf(G.blocks[dest].ops, after)
  IN [ops |-> (G.next :> rec) @@ G.ops,
      blocks |-> [G.blocks EXCEPT ![dest].ops = InsertSeqAt(@, pos + 1, <<G.next>>)],
      next |-> G.next + 1]

\* replaceAndCastForOpIterArg: a new loop whose iter operand k is
\* `replacement`, with casts to the old type on entry to the body and after
\* the loop, and a cast to the new type before the yield.  Returns the graph
\* and the values that replace the results of forOp.
replaceAndCastForOpIterArg(G, forOp, k, replacement) ==
  LET oldType  == getType(G, getInitArgs(G, forOp)[k])
      newType  == getType(G, replacement)
      newIterOperands == [getInitArgs(G, forOp) EXCEPT ![k] = replacement]
      newForOp == G.next
      newBlock == G.next + 1
      castIn   == G.next + 2
      castOut  == G.next + 3
      castRes  == G.next + 5
      oldBlock == getBody(G, forOp)
  IN With(ForOp_build(G, forOp, getLowerBound(G, forOp), getUpperBound(G, forOp),
                      getStep(G, forOp), newIterOperands), LAMBDA A :
     With(createAtEnd(A, newBlock, CastOp(oldType, Arg(newBlock, k + 1))), LAMBDA B :
     With(mergeBlocks(B, oldBlock, newBlock,
                      [getArguments(B, newBlock) EXCEPT ![k + 1] = Res(castIn, 1)]),
          LAMBDA C :
     With(createBefore(C, getTerminator(C, newBlock),
                       CastOp(newType, C.ops[getTerminator(C, newBlock)].operands[k])),
          LAMBDA D :
     With(eraseOp(createBefore(D, getTerminator(D, newBlock),
                               YieldOp([D.ops[getTerminator(D, newBlock)].operands
                                          EXCEPT ![k] = Res(castOut, 1)])),
                  getTerminator(D, newBlock)), LAMBDA E :
       [g |-> createAfter(E, newForOp, CastOp(oldType, Res(newForOp, k))),
        newResults |-> [getResults(E, newForOp) EXCEPT ![k] = Res(castRes, 1)]])))))

\* The first iter operand ForOpTensorCastFolder can fold, 0 when none: its
\* init is a cast from a more static type and its result has one use.
ForOpTensorCastFolderMatch(G, op) ==
  LET ok == {k \in DOMAIN getInitArgs(G, op) :
               LET v == getInitArgs(G, op)[k]
               IN /\ isCastOp(G, v)
                  /\ getType(G, G.ops[v.id].operands[1]) # getType(G, v)
                  /\ preservesStaticInformation(getType(G, v),
                                                getType(G, G.ops[v.id].operands[1]))
                  /\ hasOneUse(G, Res(op, k))}
  IN IF ok = {} THEN 0 ELSE MinOf(ok)

\* ForOpTensorCastFolder: pull a tensor.cast of an init value into the loop.
ForOpTensorCastFolder(G, op) ==
  LET k == ForOpTensorCastFolderMatch(G, op)
  IN IF k = 0 THEN Failure(G)
     ELSE With(replaceAndCastForOpIterArg(G, op, k,
                                          G.ops[getInitArgs(G, op)[k].id].operands[1]),
               LAMBDA r : Success(replaceOp(r.g, op, r.newResults)))

\* getConstantIntValue of an OpFoldResult: an integer attribute or a value
\* defined by a constant.
hasConstantOfr(G, x) == x.k = "attr" \/ isConstant(G, x)

getConstantOfr(G, x) == IF x.k = "attr" THEN x.i ELSE getConstantIntValue(G, x)

\* constantTripCount (StaticValueUtils): the number of iterations of a loop
\* with constant bounds and step, computed without wrapping; unknown when a
\* bound or the step is not a constant or the step is not positive.
constantTripCount(G, lb, ub, step) ==
  IF ~(hasConstantOfr(G, lb) /\ hasConstantOfr(G, ub) /\ hasConstantOfr(G, step))
  THEN [known |-> FALSE, n |-> 0]
  ELSE LET l == getConstantOfr(G, lb)
           u == getConstantOfr(G, ub)
           s == getConstantOfr(G, step)
       IN IF s <= 0 THEN [known |-> FALSE, n |-> 0]
          ELSE IF u <= l THEN [known |-> TRUE, n |-> 0]
          ELSE [known |-> TRUE, n |-> (u - l + s - 1) \div s]

\* --------------------------------------------------------------- scf.forall
\* operands: dynamic lower bounds, dynamic upper bounds, dynamic steps and
\* outputs, split by attr.operandSegmentSizes; attr.staticLowerBound,
\* attr.staticUpperBound and attr.staticStep hold one entry per dimension,
\* kDynamic where the bound is an operand; attr.mapping lists the device
\* mapping.  One region with one block whose arguments are the induction
\* variables followed by one argument per output; the block ends in
\* scf.forall.in_parallel, whose block lists tensor.parallel_insert_slice
\* operations (operands <<source, dest>>).
\* ShapedType::kDynamic is the least value of the integer type of the static
\* lists.
kDynamic == MinInt

\* An OpFoldResult is a value or an integer attribute.
IntAttr(n) == [k |-> "attr", id |-> 0, i |-> n]

RECURSIVE getMixedValues(_, _)
getMixedValues(static, dynamic) ==
  IF static = <<>> THEN <<>>
  ELSE IF Head(static) = kDynamic
  THEN <<Head(dynamic)>> \o getMixedValues(Tail(static), Tail(dynamic))
  ELSE <<IntAttr(Head(static))>> \o getMixedValues(Tail(static), dynamic)

\* dispatchIndexOpFoldResults: the static and the dynamic part of a mixed list.
dispatchStatic(mixed) ==
  [i \in DOMAIN mixed |-> IF mixed[i].k = "attr" THEN mixed[i].i ELSE kDynamic]

dispatchDynamic(mixed) == SelectSeq(mixed, LAMBDA x : x.k # "attr")

\* foldDynamicIndexList: every value that is a constant becomes an attribute.
foldDynamicIndexList(G, mixed) ==
  [ok   |-> \E i \in DOMAIN mixed : mixed[i].k # "attr" /\ isConstant(G, mixed[i]),
   list |-> [i \in DOMAIN mixed |->
               IF mixed[i].k # "attr" /\ isConstant(G, mixed[i])
               THEN IntAttr(getConstantIntValue(G, mixed[i])) ELSE mixed[i]]]

getRank(G, o) == Len(G.ops[o].attr.staticLowerBound)

segmentStart(G, o, s) ==
  LET seg == G.ops[o].attr.operandSegmentSizes
  IN IF s = 1 THEN 0 ELSE IF s = 2 THEN seg[1] ELSE IF s = 3 THEN seg[1] + seg[2]
     ELSE seg[1] + seg[2] + seg[3]

getODSOperands(G, o, s) ==
  SubSeq(G.ops[o].operands, segmentStart(G, o, s) + 1,
         segmentStart(G, o, s) + G.ops[o].attr.operandSegmentSizes[s])

getDynamicLowerBound(G, o) == getODSOperands(G, o, 1)
getDynamicUpperBound(G, o) == getODSOperands(G, o, 2)
getDynamicStep(G, o) == getODSOperands(G, o, 3)
getOutputs(G, o) == getODSOperands(G, o, 4)

getMixedLowerBound(G, o) ==
  getMixedValues(G.ops[o].attr.staticLowerBound, getDynamicLowerBound(G, o))
getMixedUpperBound(G, o) ==
  getMixedValues(G.ops[o].attr.staticUpperBound, getDynamicUpperBound(G, o))
getMixedStep(G, o) ==
  getMixedValues(G.ops[o].attr.staticStep, getDynamicStep(G, o))

\* getBody() is the front of the region's block list: there is none to read
\* when the region has no block.
hasBody(G, o) == G.ops[o].regions[1] # <<>>

getInductionVars(G, o) == SubSeq(getArguments(G, getBody(G, o)), 1, getRank(G, o))

ForallOp_getRegionIterArgs(G, o) ==
  SubSeq(getArguments(G, getBody(G, o)), getRank(G, o) + 1,
         Len(G.blocks[getBody(G, o)].args))

\* The operations of the block of the in_parallel terminator.
getYieldingOps(G, terminator) == G.blocks[G.ops[terminator].regions[1][1]].ops

\* ForallOp::getCombiningOps: the parallel_insert_slice operations of the
\* terminator whose destination is bbArg, in order.
getCombiningOps(G, o, bbArg) ==
  SelectSeq(getYieldingOps(G, getTerminator(G, getBody(G, o))),
            LAMBDA y : /\ G.ops[y].kind = "tensor.parallel_insert_slice"
                       /\ G.ops[y].operands[2] = bbArg)

ForallOpRec(lbs, ubs, steps, outputs, types, mapping, regions) ==
  Operation("scf.forall",
            dispatchDynamic(lbs) \o dispatchDynamic(ubs) \o dispatchDynamic(steps)
              \o outputs,
            types, regions,
            [staticLowerBound |-> dispatchStatic(lbs),
             staticUpperBound |-> dispatchStatic(ubs),
             staticStep |-> dispatchStatic(steps),
             operandSegmentSizes |-> <<Len(dispatchDynamic(lbs)), Len(dispatchDynamic(ubs)),
                                       Len(dispatchDynamic(steps)), Len(outputs)>>,
             mapping |-> mapping])

InParallelOp(block) == Operation("scf.forall.in_parallel", <<>>, <<>>, <<<<block>>>>, <<>>)

\* ForallOp::build: the op is G.next and its block G.next + 1; without a body
\* callback the block gets an empty in_parallel terminator (G.next + 2, its
\* block G.next + 3).
ForallOp_build(G, before, lbs, ubs, steps, outputs, mapping, bodyBuilderFn) ==
  LET types == [i \in DOMAIN outputs |-> getType(G, outputs[i])]
      A == createBefore(G, before,
                        ForallOpRec(lbs, ubs, steps, outputs, types, mapping, <<<<>>>>))
      B == createBlock(A, G.next, 1, [i \in DOMAIN lbs |-> "index"] \o types)
      C == createAtEnd(B, G.next + 1, InParallelOp(G.next + 3))
  IN IF bodyBuilderFn THEN B
     ELSE [C EXCEPT !.blocks = ((G.next + 3) :> Block(<<>>, <<>>)) @@ @,
                    !.next = G.next + 4]

\* DimOfForallOp: tensor.dim of a forall result reads the tied output instead.
DimOfForallOp(G, dimOp) ==
  LET source == G.ops[dimOp].operands[1]
  IN IF ~(source.k = "res" /\ G.ops[source.id].kind = "scf.forall") THEN Failure(G)
     ELSE Success([G EXCEPT !.ops[dimOp].operands[1] = getOutputs(G, source.id)[source.i]])

\* ForallOpControlOperandsFolder: constant bound operands become static.  The
\* three lists are folded left to right until one fold succeeds.
ForallOpControlOperandsFolder(G, op) ==
  LET foldLb   == foldDynamicIndexList(G, getMixedLowerBound(G, op))
      foldUb   == foldDynamicIndexList(G, getMixedUpperBound(G, op))
      foldStep == foldDynamicIndexList(G, getMixedStep(G, op))
      mixedLowerBound == foldLb.list
      mixedUpperBound == IF foldLb.ok THEN getMixedUpperBound(G, op) ELSE foldUb.list
      mixedStep == IF foldLb.ok \/ foldUb.ok THEN getMixedStep(G, op) ELSE foldStep.list
  IN IF ~foldLb.ok /\ ~foldUb.ok /\ ~foldStep.ok THEN Failure(G)
     ELSE Success([G EXCEPT
            !.ops[op].operands = dispatchDynamic(mixedLowerBound)
                                 \o dispatchDynamic(mixedUpperBound)
                                 \o dispatchDynamic(mixedStep) \o getOutputs(G, op),
            !.ops[op].attr = [@ EXCEPT
               !.staticLowerBound = dispatchStatic(mixedLowerBound),
               !.staticUpperBound = dispatchStatic(mixedUpperBound),
               !.staticStep = dispatchStatic(mixedStep),
               !.operandSegmentSizes =
                  <<Len(dispatchDynamic(mixedLowerBound)),
                    Len(dispatchDynamic(mixedUpperBound)),
                    Len(dispatchDynamic(mixedStep)), getNumResults(G, op)>>]])

RECURSIVE eraseOps(_, _)
eraseOps(G, os) == IF os = <<>> THEN G ELSE eraseOps(eraseOp(G, Head(os)), Tail(os))

\* ForallOpIterArgsFolder: fold the outputs whose result has no use or whose
\* block argument is not the destination of a store in the terminator.  The
\* body moves to a new forall; the uses of the old results are redirected.
ForallOpIterArgsFolder(G, forallOp) ==
  LET n    == getNumResults(G, forallOp)
      rank == getRank(G, forallOp)
      tiedBlockArgument(i) == Arg(getBody(G, forallOp), rank + i)
      tiedOpOperand(i) == getOutputs(G, forallOp)[i]
      delete == [i \in 1 .. n |->
                   \/ use_empty(G, Res(forallOp, i))
                   \/ getCombiningOps(G, forallOp, tiedBlockArgument(i)) = <<>>]
      keep == [i \in 1 .. n |-> ~delete[i]]
      resultToReplace == Filter(getResults(G, forallOp), keep)
      newOuts == Filter(getOutputs(G, forallOp), keep)
      combining == [i \in 1 .. n |->
                      IF delete[i] THEN getCombiningOps(G, forallOp, tiedBlockArgument(i))
                      ELSE <<>>]
      allCombining == UNION {Range(combining[i]) : i \in 1 .. n}
      newForallOp == G.next
      newLoopBody == G.next + 1
      newBlockArgs == [i \in 1 .. rank |-> Arg(newLoopBody, i)]
                      \o [i \in 1 .. n |->
                            IF delete[i] THEN tiedOpOperand(i)
                            ELSE Arg(newLoopBody, rank + Count(keep, i))]
  IN IF n = 0 THEN Failure(G)
     ELSE IF ~hasBody(G, forallOp) THEN Undefined(G)
     ELSE IF \A i \in 1 .. n : ~delete[i] THEN Failure(G)
     ELSE With(eraseOps(G, SelectSeq(getYieldingOps(G, getTerminator(G, getBody(G, forallOp))),
                                     LAMBDA y : y \in allCombining)), LAMBDA A :
          With(ForallOp_build(A, forallOp, getMixedLowerBound(G, forallOp),
                              getMixedUpperBound(G, forallOp), getMixedStep(G, forallOp),
                              newOuts, G.ops[forallOp].attr.mapping, TRUE), LAMBDA B :
          With(mergeBlocks(B, getBody(G, forallOp), newLoopBody, newBlockArgs), LAMBDA C :
          With(replaceAllUsesWithRange(C, resultToReplace, getResults(C, newForallOp)),
               LAMBDA D :
            Success(replaceAllUsesWithRange(D, Filter(getResults(G, forallOp), delete),
                                            Filter(getOutputs(G, forallOp), delete)))))))

\* getValueOrCreateConstantIndexOp: a value as it is, an attribute as a new
\* index constant created before operation `before`.
getValueOrCreateConstantIndexOp(G, before, ofr) ==
  IF ofr.k = "attr"
  THEN [g |-> createBefore(G, before, ConstantOp("index", ofr.i)), v |-> Res(G.next, 1)]
  ELSE [g |-> G, v |-> ofr]

\* The values of a list of OpFoldResults, constants created in order.
RECURSIVE getValueOrCreateConstantIndexOps(_, _, _, _)
getValueOrCreateConstantIndexOps(G, before, ofrs, vs) ==
  IF ofrs = <<>> THEN [g |-> G, vs |-> vs]
  ELSE With(getValueOrCreateConstantIndexOp(G, before, Head(ofrs)), LAMBDA r :
         getValueOrCreateConstantIndexOps(r.g, before, Tail(ofrs), Append(vs, r.v)))

\* Remove the blocks of region r of operation o with all they hold.
clearRegion(G, o, r) ==
  LET top   == Range(G.ops[o].regions[r])
      dead  == UNION {UNION {NestedOps(G, c) : c \in Range(G.blocks[b].ops)} : b \in top}
      deadB == top \cup UNION {RegionBlocks(G, c) : c \in dead}
  IN [G EXCEPT !.ops = [p \in DOMAIN G.ops \ dead |->
                          IF p = o THEN [G.ops[p] EXCEPT !.regions[r] = <<>>] ELSE G.ops[p]],
               !.blocks = [b \in DOMAIN G.blocks \ deadB |-> G.blocks[b]]]

\* An IRMapping is a list of <<from, to>> pairs.
mapped(mapping, v) == \E i \in DOMAIN mapping : mapping[i][1] = v

lookupOrDefault(mapping, v) ==
  IF mapped(mapping, v)
  THEN mapping[CHOOSE i \in DOMAIN mapping : mapping[i][1] = v][2]
  ELSE v

\* Cloning the operations O and the blocks B: the copies of the operations
\* get the ids from G.next on, in the order of the originals, the copies of
\* the blocks the ids after them.
clonedOp(G, O, o) == G.next + Cardinality({x \in O : x < o})

clonedBlock(G, O, B, b) == G.next + Cardinality(O) + Cardinality({x \in B : x < b})

\* The arguments of block b that a clone keeps: those that are not mapped.
keptArgs(G, mapping, b) == {i \in DOMAIN G.blocks[b].args : ~mapped(mapping, Arg(b, i))}

cloneValue(G, O, B, mapping, v) ==
  IF mapped(mapping, v) THEN lookupOrDefault(mapping, v)
  ELSE IF v.k = "res" /\ v.id \in O THEN Res(clonedOp(G, O, v.id), v.i)
  ELSE IF v.k = "arg" /\ v.id \in B
  THEN Arg(clonedBlock(G, O, B, v.id),
           Cardinality({j \in keptArgs(G, mapping, v.id) : j <= v.i}))
  ELSE v

cloneOpRec(G, O, B, mapping, o) ==
  [G.ops[o] EXCEPT
     !.operands = [j \in DOMAIN @ |-> cloneValue(G, O, B, mapping, @[j])],
     !.regions = [r \in DOMAIN @ |-> [k \in DOMAIN @[r] |-> clonedBlock(G, O, B, @[r][k])]]]

cloneBlockRec(G, O, B, mapping, b) ==
  LET kept == keptArgs(G, mapping, b)
  IN Block([j \in 1 .. Cardinality(kept) |->
              G.blocks[b].args[CHOOSE i \in kept : Cardinality({x \in kept : x <= i}) = j]],
           [k \in DOMAIN G.blocks[b].ops |-> clonedOp(G, O, G.blocks[b].ops[k])])

clonedOps(G, O, B, mapping) ==
  [x \in {clonedOp(G, O, o) : o \in O} |->
     cloneOpRec(G, O, B, mapping, CHOOSE o \in O : clonedOp(G, O, o) = x)]

clonedBlocks(G, O, B, mapping) ==
  [x \in {clonedBlock(G, O, B, b) : b \in B} |->
     cloneBlockRec(G, O, B, mapping, CHOOSE b \in B : clonedBlock(G, O, B, b) = x)]

\* Region::cloneInto: copy the blocks of region sr of operation s to the
\* front of region dr of operation d; a block argument that is mapped is
\* not copied.
cloneRegionBefore(G, s, sr, d, dr, mapping) ==
  LET top == G.ops[s].regions[sr]
      O == UNION {UNION {NestedOps(G, c) : c \in Range(G.blocks[b].ops)} : b \in Range(top)}
      B == Range(top) \cup UNION {RegionBlocks(G, c) : c \in O}
  IN [ops |-> clonedOps(G, O, B, mapping)
              @@ [G.ops EXCEPT ![d].regions[dr] =
                                  [k \in DOMAIN top |-> clonedBlock(G, O, B, top[k])] \o @],
      blocks |-> clonedBlocks(G, O, B, mapping) @@ G.blocks,
      next |-> G.next + Cardinality(O) + Cardinality(B)]

\* OpBuilder::clone of the operations os (a list, with all they hold), the
\* copies inserted in order before operation `before` or, with before = 0,
\* at the end of block b.  Returns the graph and the mapping extended by the
\* results of the copied operations.
cloneOps(G, os, before, b, mapping) ==
  LET O == UNION {NestedOps(G, c) : c \in Range(os)}
      B == UNION {RegionBlocks(G, c) : c \in O}
      copies == [k \in DOMAIN os |-> clonedOp(G, O, os[k])]
      dest == IF before = 0 THEN b ELSE getBlock(G, before)
      pos == IF before = 0 THEN Len(G.blocks[dest].ops) + 1
             ELSE IndexOf(G.blocks[dest].ops, before)
      Pairs(o) == [i \in 1 .. Len(G.ops[o].types) |-> <<Res(o, i), Res(clonedOp(G, O, o), i)>>]
      RECURSIVE AllPairs(_)
      AllPairs(S) == IF S = {} THEN <<>>
                     ELSE LET o == MinOf(S) IN Pairs(o) \o AllPairs(S \ {o})
  IN [g |-> [ops |-> clonedOps(G, O, B, mapping) @@ G.ops,
             blocks |-> clonedBlocks(G, O, B, mapping)
                        @@ [G.blocks EXCEPT ![dest].ops = InsertSeqAt(@, pos, copies)],
             next |-> G.next + Cardinality(O) + Cardinality(B)],
      mapping |-> mapping \o AllPairs(O)]

InsertSliceOp(type, source, dest) ==
  Operation("tensor.insert_slice", <<source, dest>>, <<type>>, <<>>, <<>>)

\* The insert_slice operations promote creates for the yielding operations
\* ys, each after the operation `after`; ids collects the created ids.
RECURSIVE createInsertSlices(_, _, _, _)
createInsertSlices(G, after, ys, ids) ==
  IF ys = <<>> THEN [g |-> G, ids |-> ids]
  ELSE LET dst == G.ops[Head(ys)].operands[2]
           src == G.ops[Head(ys)].operands[1]
       IN With(createAfter(G, after, InsertSliceOp(getType(G, dst), src, dst)), LAMBDA A :
            createInsertSlices(A, G.next, Tail(ys), Append(ids, G.next)))

\* scf::promote(ForallOp): the body moves before the loop, the induction
\* variables become the lower bounds, the block arguments of the outputs the
\* outputs, and every store of the terminator becomes a tensor.insert_slice
\* after the loop, whose results replace the loop's results in order.
promote(G, forallOp) ==
  LET terminator == getTerminator(G, getBody(G, forallOp))
  IN With(getValueOrCreateConstantIndexOps(G, forallOp, getMixedLowerBound(G, forallOp),
                                           <<>>), LAMBDA lbs :
     With(inlineBlockBefore(lbs.g, getBody(G, forallOp), forallOp,
                            lbs.vs \o getOutputs(G, forallOp)), LAMBDA A :
     With(createInsertSlices(A, forallOp, getYieldingOps(A, terminator), <<>>), LAMBDA r :
     With(replaceAllUsesWithRange(r.g, getResults(G, forallOp),
                                  [i \in DOMAIN r.ids |-> Res(r.ids[i], 1)]), LAMBDA B :
       eraseOp(eraseOp(B, terminator), forallOp)))))

\* promote replaces the results by as many values as the terminator has
\* stores and erases the loop.  With another number of stores the rewriter's
\* assertion on the two lengths fails in a build with assertions; without
\* them the replacement stops at the shorter list, and erasing the loop
\* destroys every result that still has uses.
promoteMismatch(G, forallOp) ==
  Len(getYieldingOps(G, getTerminator(G, getBody(G, forallOp)))) # getNumResults(G, forallOp)

promoteLeavesUses(G, forallOp) ==
  \E i \in 1 .. getNumResults(G, forallOp) :
    /\ i > Len(getYieldingOps(G, getTerminator(G, getBody(G, forallOp))))
    /\ ~use_empty(G, Res(forallOp, i))

\* The scan of ForallOpSingleOrZeroIterationDimsFolder over the dimensions
\* from d on: acc.keep marks the dimensions that stay, acc.mapping maps the
\* induction variables of the single-iteration dimensions to their lower
\* bounds, acc.zero is set at a dimension with no iteration.
RECURSIVE ForallOpDimsScan(_, _, _, _)
ForallOpDimsScan(G, op, d, acc) ==
  IF d > getRank(G, op) THEN [g |-> G, acc |-> acc]
  ELSE LET lb == getMixedLowerBound(G, op)[d]
           numIterations == constantTripCount(G, lb, getMixedUpperBound(G, op)[d],
                                              getMixedStep(G, op)[d])
           iv == getInductionVars(G, op)[d]
       IN IF numIterations.known /\ numIterations.n = 0
          THEN [g |-> G, acc |-> [acc EXCEPT !.zero = TRUE]]
          ELSE IF numIterations.known /\ numIterations.n = 1
          THEN With(getValueOrCreateConstantIndexOp(G, op, lb), LAMBDA r :
                 ForallOpDimsScan(r.g, op, d + 1,
                                  [acc EXCEPT !.keep = Append(@, FALSE),
                                              !.mapping = Append(@, <<iv, r.v>>)]))
          ELSE ForallOpDimsScan(G, op, d + 1, [acc EXCEPT !.keep = Append(@, TRUE)])

\* ForallOpSingleOrZeroIterationDimsFolder, in a build with or without
\* assertions.
ForallOpSingleOrZeroIterationDimsFolder(G, op, assertions) ==
  IF G.ops[op].attr.mapping # <<>> THEN Failure(G)
  ELSE IF ~hasBody(G, op) THEN Undefined(G)
  ELSE With(ForallOpDimsScan(G, op, 1, [zero |-> FALSE, keep |-> <<>>, mapping |-> <<>>]),
            LAMBDA s :
       IF s.acc.zero THEN Success(replaceOp(s.g, op, getOutputs(s.g, op)))
       ELSE IF \A d \in DOMAIN s.acc.keep : ~s.acc.keep[d]
       THEN IF promoteMismatch(s.g, op) /\ (assertions \/ promoteLeavesUses(s.g, op))
            THEN Undefined(G)
            ELSE Success(promote(s.g, op))
       ELSE IF \A d \in DOMAIN s.acc.keep : s.acc.keep[d] THEN Failure(s.g)
       ELSE With(clearRegion(ForallOp_build(s.g, op,
                                            Filter(getMixedLowerBound(s.g, op), s.acc.keep),
                                            Filter(getMixedUpperBound(s.g, op), s.acc.keep),
                                            Filter(getMixedStep(s.g, op), s.acc.keep),
                                            getOutputs(s.g, op), <<>>, FALSE),
                             s.g.next, 1), LAMBDA A :
            With([A EXCEPT !.ops[s.g.next].attr.mapping = A.ops[op].attr.mapping],
                 LAMBDA B :
            With(cloneRegionBefore(B, op, 1, s.g.next, 1, s.acc.mapping), LAMBDA C :
              Success(replaceOp(C, op, getResults(C, s.g.next)))))))

\* The scan of ForallOpReplaceConstantInductionVar over the dimensions.
RECURSIVE ForallOpReplaceIVScan(_, _, _, _)
ForallOpReplaceIVScan(G, op, d, changed) ==
  IF d > getRank(G, op) THEN [ok |-> changed, g |-> G, ub |-> FALSE]
  ELSE LET lb == getMixedLowerBound(G, op)[d]
           numIterations == constantTripCount(G, lb, getMixedUpperBound(G, op)[d],
                                              getMixedStep(G, op)[d])
           iv == getInductionVars(G, op)[d]
       IN IF use_empty(G, iv) THEN ForallOpReplaceIVScan(G, op, d + 1, changed)
          ELSE IF ~numIterations.known \/ numIterations.n # 1
          THEN ForallOpReplaceIVScan(G, op, d + 1, changed)
          ELSE With(getValueOrCreateConstantIndexOp(G, op, lb), LAMBDA r :
               With(replaceAllUsesWith(r.g, iv, r.v), LAMBDA A :
                 ForallOpReplaceIVScan(A, op, d + 1, TRUE)))

\* ForallOpReplaceConstantInductionVar: the induction variable of a
\* dimension with one iteration is replaced by the lower bound.
ForallOpReplaceConstantInductionVar(G, op) ==
  IF ~hasBody(G, op) THEN Undefined(G) ELSE ForallOpReplaceIVScan(G, op, 1, FALSE)

\* Create tensor.cast operations of the values vs at the positions in idxs
\* (ascending), each after the operation `after` or, with after = 0, at the
\* end of block b; the created results replace the values in vs.
RECURSIVE createCasts(_, _, _, _, _, _)
createCasts(G, after, b, idxs, types, vs) ==
  IF idxs = {} THEN [g |-> G, vs |-> vs]
  ELSE LET i == MinOf(idxs)
           rec == CastOp(types[i], vs[i])
       IN With(IF after = 0 THEN createAtEnd(G, b, rec) ELSE createAfter(G, after, rec),
               LAMBDA A : createCasts(A, IF after = 0 THEN 0 ELSE G.next, b, idxs \ {i},
                                      types, [vs EXCEPT ![i] = Res(G.next, 1)]))

\* The destination of the j-th yielding operation becomes the j-th value of
\* args, for as many as both lists have.
RECURSIVE assignDests(_, _, _)
assignDests(G, ys, args) ==
  IF ys = <<>> \/ args = <<>> THEN G
  ELSE assignDests([G EXCEPT !.ops[Head(ys)].operands[2] = Head(args)], Tail(ys), Tail(args))

\* FoldTensorCastOfOutputIntoForallOp: an output defined by a tensor.cast
\* from a type with at least as much static information is replaced by the
\* source of the cast; the cast moves into the body and after the loop.
FoldTensorCastOfOutputIntoForallOp(G, forallOp) ==
  LET outputs == getOutputs(G, forallOp)
      rank == getRank(G, forallOp)
      tensorCastProducers ==
        {i \in DOMAIN outputs :
           /\ isCastOp(G, outputs[i])
           /\ preservesStaticInformation(getType(G, outputs[i]),
                                         getType(G, G.ops[outputs[i].id].operands[1]))}
      newOutputTensors ==
        [i \in DOMAIN outputs |->
           IF i \in tensorCastProducers THEN G.ops[outputs[i].id].operands[1] ELSE outputs[i]]
      dstType == [i \in DOMAIN outputs |-> getType(G, outputs[i])]
      newForallOp == G.next
      newBody == G.next + 1
  IN IF tensorCastProducers = {} THEN Failure(G)
     ELSE IF ~hasBody(G, forallOp) THEN Undefined(G)
     ELSE With(ForallOp_build(G, forallOp, getMixedLowerBound(G, forallOp),
                              getMixedUpperBound(G, forallOp), getMixedStep(G, forallOp),
                              newOutputTensors, G.ops[forallOp].attr.mapping, TRUE), LAMBDA A :
          With(createCasts(A, 0, newBody, tensorCastProducers, dstType,
                           ForallOp_getRegionIterArgs(A, newForallOp)), LAMBDA c :
          With(mergeBlocks(c.g, getBody(G, forallOp), newBody,
                           getInductionVars(A, newForallOp) \o c.vs), LAMBDA B :
          With(assignDests(B, getYieldingOps(B, getTerminator(B, newBody)),
                           ForallOp_getRegionIterArgs(B, newForallOp)), LAMBDA C :
          With(createCasts(C, newForallOp, 0, tensorCastProducers, dstType,
                           getResults(C, newForallOp)), LAMBDA r :
            Success(replaceOp(r.g, forallOp, r.vs)))))))

\* ------------------------------------------------------------- scf.parallel
\* operands: lower bounds, upper bounds, steps and init values, split by
\* attr.operandSegmentSizes.  One region with one block whose arguments are
\* the induction variables; the block ends in scf.reduce, which has one
\* operand and one region per init value; a reduction block has two
\* arguments and ends in scf.reduce.return with one operand.
ParallelOp_getLowerBound(G, o) == getODSOperands(G, o, 1)
ParallelOp_getUpperBound(G, o) == getODSOperands(G, o, 2)
ParallelOp_getStep(G, o) == getODSOperands(G, o, 3)
getInitVals(G, o) == getODSOperands(G, o, 4)

ParallelOpRec(lbs, ubs, steps, initVals, types, regions) ==
  Operation("scf.parallel", lbs \o ubs \o steps \o initVals, types, regions,
            [operandSegmentSizes |-> <<Len(lbs), Len(ubs), Len(steps), Len(initVals)>>])

ReduceOp(operands, regions) == Operation("scf.reduce", operands, <<>>, regions, <<>>)

without_terminator(G, b) == SubSeq(G.blocks[b].ops, 1, Len(G.blocks[b].ops) - 1)

\* ParallelOp::build before the body callback runs: the op is G.next, its
\* block G.next + 1 with one index argument per step.
ParallelOp_buildShell(G, before, lbs, ubs, steps, initVals) ==
  createBlock(createBefore(G, before,
                           ParallelOpRec(lbs, ubs, steps, initVals,
                                         [i \in DOMAIN initVals |-> getType(G, initVals[i])],
                                         <<<<>>>>)),
              G.next, 1, [i \in DOMAIN steps |-> "index"])

\* The end of ParallelOp::build: a terminator is added only when there are
\* no init values (and the block has none yet).
ParallelOp_ensureTerminator(G, op) ==
  LET b == getBody(G, op)
      ops == G.blocks[b].ops
  IN IF getInitVals(G, op) # <<>> THEN G
     ELSE IF ops # <<>> /\ G.ops[ops[Len(ops)]].kind \in
                             {"scf.reduce", "scf.yield", "func.return", "cf.br"}
     THEN G
     ELSE createAtEnd(G, b, ReduceOp(<<>>, <<>>))

\* The scan of ParallelOpSingleOrZeroIterationDimsFolder over the dimensions.
RECURSIVE ParallelOpDimsScan(_, _, _, _)
ParallelOpDimsScan(G, op, d, acc) ==
  IF d > Len(ParallelOp_getStep(G, op)) THEN acc
  ELSE LET lb == ParallelOp_getLowerBound(G, op)[d]
           numIterations == constantTripCount(G, lb, ParallelOp_getUpperBound(G, op)[d],
                                              ParallelOp_getStep(G, op)[d])
           iv == Arg(getBody(G, op), d)
       IN IF numIterations.known /\ numIterations.n = 0 THEN [acc EXCEPT !.zero = TRUE]
          ELSE IF numIterations.known /\ numIterations.n = 1
          THEN ParallelOpDimsScan(G, op, d + 1,
                                  [acc EXCEPT !.keep = Append(@, FALSE),
                                              !.mapping = Append(@, <<iv, lb>>)])
          ELSE ParallelOpDimsScan(G, op, d + 1, [acc EXCEPT !.keep = Append(@, TRUE)])

\* Inline the reductions from i on of a single-iteration parallel loop before
\* op: reduction block i is copied with its first argument mapped to init
\* value i and its second to the copy of the reduced operand.
RECURSIVE ParallelOpInlineReductions(_, _, _, _, _, _)
ParallelOpInlineReductions(G, op, reduceOp, i, mapping, results) ==
  IF i > Len(G.ops[reduceOp].regions) THEN [g |-> G, results |-> results]
  ELSE LET reduceBlock == G.ops[reduceOp].regions[i][1]
           m == mapping \o
                <<<<Arg(reduceBlock, 1), getInitVals(G, op)[Len(results) + 1]>>,
                  <<Arg(reduceBlock, 2),
                    lookupOrDefault(mapping, G.ops[reduceOp].operands[i])>>>>
       IN With(cloneOps(G, without_terminator(G, reduceBlock), op, 0, m), LAMBDA c :
            ParallelOpInlineReductions(
              c.g, op, reduceOp, i + 1, c.mapping,
              Append(results,
                     lookupOrDefault(c.mapping,
                                     G.ops[getTerminator(G, reduceBlock)].operands[1]))))

\* ParallelOpSingleOrZeroIterationDimsFolder.
ParallelOpSingleOrZeroIterationDimsFolder(G, op) ==
  LET acc == ParallelOpDimsScan(G, op, 1, [zero |-> FALSE, keep |-> <<>>, mapping |-> <<>>])
      lbs == ParallelOp_getLowerBound(G, op)
      newOp == G.next
  IN IF acc.zero THEN Success(replaceOp(G, op, getInitVals(G, op)))
     ELSE IF \A d \in DOMAIN acc.keep : acc.keep[d] THEN Failure(G)
     ELSE IF \A d \in DOMAIN acc.keep : ~acc.keep[d]
     THEN With(cloneOps(G, without_terminator(G, getBody(G, op)), op, 0, acc.mapping),
               LAMBDA c :
          With(ParallelOpInlineReductions(c.g, op, getTerminator(G, getBody(G, op)), 1,
                                          c.mapping, <<>>), LAMBDA r :
            Success(replaceOp(r.g, op, r.results))))
     ELSE With(clearRegion(ParallelOp_ensureTerminator(
                             ParallelOp_buildShell(G, op, Filter(lbs, acc.keep),
                                                   Filter(ParallelOp_getUpperBound(G, op),
                                                          acc.keep),
                                                   Filter(ParallelOp_getStep(G, op), acc.keep),
                                                   getInitVals(G, op)),
                             newOp),
                           newOp, 1), LAMBDA A :
          With(cloneRegionBefore(A, op, 1, newOp, 1, acc.mapping), LAMBDA B :
            Success(replaceOp(B, op, getResults(B, newOp)))))

\* A variant of MergeNestedParallelLoops that does not look at the inner
\* loop's bounds.
MergeNestedParallelLoopsAnyBounds(G, op) ==
  LET outerBody == getBody(G, op)
      innerOp   == G.blocks[outerBody].ops[1]
      innerBody == getBody(G, innerOp)
      newOp == G.next
      newBody == G.next + 1
      nOuter == Len(G.blocks[outerBody].args)
      mapping == [i \in DOMAIN G.blocks[outerBody].args |->
                    <<Arg(outerBody, i), Arg(newBody, i)>>]
                 \o [i \in DOMAIN G.blocks[innerBody].args |->
                       <<Arg(innerBody, i), Arg(newBody, nOuter + i)>>]
  IN IF Len(G.blocks[outerBody].ops) # 2 THEN Failure(G)
     ELSE IF G.ops[innerOp].kind # "scf.parallel" THEN Failure(G)
     ELSE IF getInitVals(G, op) # <<>> \/ getInitVals(G, innerOp) # <<>> THEN Failure(G)
     ELSE With(ParallelOp_buildShell(
                 G, op,
                 ParallelOp_getLowerBound(G, op) \o ParallelOp_getLowerBound(G, innerOp),
                 ParallelOp_getUpperBound(G, op) \o ParallelOp_getUpperBound(G, innerOp),
                 ParallelOp_getStep(G, op) \o ParallelOp_getStep(G, innerOp), <<>>),
               LAMBDA A :
          With(cloneOps(A, without_terminator(A, innerBody), 0, newBody, mapping), LAMBDA c :
          With(ParallelOp_ensureTerminator(c.g, newOp), LAMBDA B :
            Success(replaceOp(B, op, getResults(B, newOp))))))

\* MergeNestedParallelLoops: a parallel loop whose body is one parallel loop
\* (besides the terminator) becomes one loop over both iteration spaces.
MergeNestedParallelLoops(G, op) ==
  LET outerBody == getBody(G, op)
      innerOp   == G.blocks[outerBody].ops[1]
      innerBody == getBody(G, innerOp)
      inner == ParallelOp_getLowerBound(G, innerOp) \o ParallelOp_getUpperBound(G, innerOp)
               \o ParallelOp_getStep(G, innerOp)
      newOp == G.next
      newBody == G.next + 1
      nOuter == Len(G.blocks[outerBody].args)
      mapping == [i \in DOMAIN G.blocks[outerBody].args |->
                    <<Arg(outerBody, i), Arg(newBody, i)>>]
                 \o [i \in DOMAIN G.blocks[innerBody].args |->
                       <<Arg(innerBody, i), Arg(newBody, nOuter + i)>>]
  IN IF Len(G.blocks[outerBody].ops) # 2 THEN Failure(G)
     ELSE IF G.ops[innerOp].kind # "scf.parallel" THEN Failure(G)
     ELSE IF \E i \in DOMAIN G.blocks[outerBody].args :
               \E j \in DOMAIN inner : inner[j] = Arg(outerBody, i)
     THEN Failure(G)
     ELSE IF getInitVals(G, op) # <<>> \/ getInitVals(G, innerOp) # <<>> THEN Failure(G)
     ELSE With(ParallelOp_buildShell(
                 G, op,
                 ParallelOp_getLowerBound(G, op) \o ParallelOp_getLowerBound(G, innerOp),
                 ParallelOp_getUpperBound(G, op) \o ParallelOp_getUpperBound(G, innerOp),
                 ParallelOp_getStep(G, op) \o ParallelOp_getStep(G, innerOp), <<>>),
               LAMBDA A :
          With(cloneOps(A, without_terminator(A, innerBody), 0, newBody, mapping), LAMBDA c :
          With(ParallelOp_ensureTerminator(c.g, newOp), LAMBDA B :
            Success(replaceOp(B, op, getResults(B, newOp))))))

\* ------------------------------------------------------------- interpreter
\* The meaning of a program: a function from the values of the entry block's
\* arguments and an oracle (the results of the opaque test.op operations, in
\* execution order) to the returned values and the trace of opaque calls.
\* st.undef records the use of a value that was never defined, st.timeout a
\* while loop stopped after MaxIter iterations.
Terminators == {"scf.yield", "scf.condition", "func.return",
                "scf.forall.in_parallel", "scf.reduce", "scf.reduce.return"}

\* i1 and index values are kept in their width; i64 values are modelled as
\* unbounded integers.
norm(type, x) ==
  IF type = "i1" THEN x % 2 ELSE IF type = "index" THEN getSExtValue(x) ELSE x

RECURSIVE XorBits(_, _, _)
XorBits(a, b, n) ==
  IF n = 0 THEN 0 ELSE (((a % 2) + (b % 2)) % 2) + 2 * XorBits(a \div 2, b \div 2, n - 1)

RECURSIVE AndBits(_, _, _)
AndBits(a, b, n) ==
  IF n = 0 THEN 0 ELSE ((a % 2) * (b % 2)) + 2 * AndBits(a \div 2, b \div 2, n - 1)

\* arith.cmpi predicates, numbered as CmpIPredicate.
cmpi(pred, a, b) ==
  LET ua == getZExtValue(a)
      ub == getZExtValue(b)
      r  == CASE pred = 0 -> a = b   [] pred = 1 -> a # b
              [] pred = 2 -> a < b   [] pred = 3 -> a <= b
              [] pred = 4 -> a > b   [] pred = 5 -> a >= b
              [] pred = 6 -> ua < ub [] pred = 7 -> ua <= ub
              [] pred = 8 -> ua > ub [] OTHER -> ua >= ub
  IN IF r THEN 1 ELSE 0

EmptyEnv == [v \in {} |-> 0]

InitState(orc) ==
  [env |-> EmptyEnv, trace |-> <<>>, orc |-> orc, undef |-> FALSE, timeout |-> FALSE]

Defined(st, vs) == \A j \in DOMAIN vs : vs[j] \in DOMAIN st.env

Vals(st, vs) == [j \in DOMAIN vs |-> IF vs[j] \in DOMAIN st.env THEN st.env[vs[j]] ELSE 0]

Bind(st, vs, xs) ==
  [st EXCEPT !.env =
     [v \in DOMAIN st.env \cup Range(vs) |->
        IF v \in Range(vs) /\ IndexOf(vs, v) <= Len(xs) THEN xs[IndexOf(vs, v)]
        ELSE IF v \in DOMAIN st.env THEN st.env[v] ELSE 0]]

Undef(st) == [st EXCEPT !.undef = TRUE]

Zeros(n) == [j \in 1 .. n |-> 0]

\* The results of an opaque operation are read off the oracle.
TakeOracle(orc, types) ==
  [j \in DOMAIN types |-> IF j <= Len(orc) THEN orc[j] ELSE 0]

DropOracle(orc, n) == IF n >= Len(orc) THEN <<>> ELSE SubSeq(orc, n + 1, Len(orc))

RECURSIVE ExecOps(_, _, _)
RECURSIVE ExecOp(_, _, _)
RECURSIVE ExecBlock(_, _, _, _)
RECURSIVE ExecFor(_, _, _, _, _, _, _)
RECURSIVE ExecWhile(_, _, _, _, _)

\* Execute a block with the given argument values; the result carries the
\* operand values of the terminator.
ExecBlock(G, b, args, st) ==
  IF b \notin DOMAIN G.blocks THEN [st |-> Undef(st), vals |-> <<>>]
  ELSE ExecOps(G, G.blocks[b].ops,
               IF Len(args) = Len(G.blocks[b].args)
               THEN Bind(st, getArguments(G, b), args)
               ELSE Undef(Bind(st, getArguments(G, b), args)))

ExecOps(G, ops, st) ==
  IF ops = <<>> THEN [st |-> Undef(st), vals |-> <<>>]
  ELSE IF Head(ops) \notin DOMAIN G.ops THEN [st |-> Undef(st), vals |-> <<>>]
  ELSE IF G.ops[Head(ops)].kind \in Terminators
  THEN [st |-> IF Defined(st, G.ops[Head(ops)].operands) THEN st ELSE Undef(st),
        vals |-> Vals(st, G.ops[Head(ops)].operands)]
  ELSE ExecOps(G, Tail(ops), ExecOp(G, Head(ops), st))

ExecFor(G, o, i, ub, step, cur, st) ==
  IF i >= ub THEN [st |-> st, vals |-> cur]
  ELSE LET r == ExecBlock(G, getBody(G, o), <<i>> \o cur, st)
       IN ExecFor(G, o, i + step, ub, step, r.vals, r.st)

ExecWhile(G, o, cur, st, fuel) ==
  LET r == ExecBlock(G, G.ops[o].regions[1][1], cur, st)
  IN IF r.vals = <<>> THEN [st |-> Undef(r.st), vals |-> Zeros(getNumResults(G, o))]
     ELSE IF Head(r.vals) = 0 THEN [st |-> r.st, vals |-> Tail(r.vals)]
     ELSE IF fuel = 0
     THEN [st |-> [r.st EXCEPT !.timeout = TRUE], vals |-> Zeros(getNumResults(G, o))]
     ELSE LET r2 == ExecBlock(G, G.ops[o].regions[2][1], Tail(r.vals), r.st)
          IN ExecWhile(G, o, r2.vals, r2.st, fuel - 1)

ExecOp(G, o, st) ==
  LET op   == G.ops[o]
      s0   == IF Defined(st, op.operands) THEN st ELSE Undef(st)
      x    == Vals(st, op.operands)
      res  == getResults(G, o)
      kind == op.kind
      \* run one of the op's regions and bind its yielded values to the results
      Branch(r) ==
        IF r > Len(op.regions) \/ op.regions[r] = <<>>
        THEN IF res = <<>> THEN s0 ELSE Undef(Bind(s0, res, Zeros(Len(res))))
        ELSE LET b == ExecBlock(G, op.regions[r][1], <<>>, s0)
             IN Bind(b.st, res, b.vals)
  IN CASE kind = "arith.constant" -> Bind(s0, res, <<norm(op.types[1], op.attr[1])>>)
       [] kind = "arith.addi" -> Bind(s0, res, <<norm(op.types[1], x[1] + x[2])>>)
       [] kind = "arith.subi" -> Bind(s0, res, <<norm(op.types[1], x[1] - x[2])>>)
       [] kind = "arith.xori" ->
            Bind(s0, res, <<norm(op.types[1],
                                 XorBits(getZExtValue(x[1]), getZExtValue(x[2]), W))>>)
       [] kind = "arith.andi" ->
            Bind(s0, res, <<norm(op.types[1],
                                 AndBits(getZExtValue(x[1]), getZExtValue(x[2]), W))>>)
       [] kind = "arith.select" -> Bind(s0, res, <<IF x[1] # 0 THEN x[2] ELSE x[3]>>)
       [] kind = "arith.cmpi" -> Bind(s0, res, <<cmpi(op.attr[1], x[1], x[2])>>)
       [] kind = "tensor.cast" -> Bind(s0, res, <<x[1]>>)
       [] kind = "test.op" ->
            Bind([s0 EXCEPT !.trace = Append(@, op.attr \o x),
                            !.orc = DropOracle(@, Len(res))],
                 res, TakeOracle(s0.orc, op.types))
       [] kind = "scf.if" -> Branch(IF x[1] # 0 THEN 1 ELSE 2)
       [] kind = "scf.execute_region" -> Branch(1)
       [] kind = "scf.index_switch" ->
            LET hits == {j \in DOMAIN op.attr : op.attr[j] = x[1]}
            IN Branch(IF hits = {} THEN 1 ELSE 1 + MinOf(hits))
       [] kind = "scf.for" ->
            IF x[3] <= 0 THEN Undef(Bind(s0, res, Zeros(Len(res))))
            ELSE LET r == ExecFor(G, o, x[1], x[2], x[3], SubSeq(x, 4, Len(x)), s0)
                 IN Bind(r.st, res, r.vals)
       [] kind = "scf.while" ->
            LET r == ExecWhile(G, o, x, s0, MaxIter)
            IN Bind(r.st, res, r.vals)
       [] OTHER -> Undef(Bind(s0, res, Zeros(Len(res))))

\* The entry block of a program is block 1 of the function operation 0.
EntryBlock == 1

RECURSIVE Tuples(_)
Tuples(types) ==
  IF types = <<>> THEN {<<>>}
  ELSE {<<h>> \o t : h \in (IF Head(types) = "i1" THEN Bits ELSE Ints),
                     t \in Tuples(Tail(types))}

Inputs(G) == Tuples(G.blocks[EntryBlock].args)

\* Number of opaque results the oracle provides.
OracleLen == 2

Oracles == [1 .. OracleLen -> Bits]

Run(G, inp, orc) ==
  LET r == ExecBlock(G, EntryBlock, inp, InitState(orc))
  IN [ret |-> r.vals, trace |-> r.st.trace, undef |-> r.st.undef,
      timeout |-> r.st.timeout]

\* Two programs agree when they return the same values and make the same
\* opaque calls for every input and oracle.
Equivalent(G1, G2) ==
  \A inp \in Inputs(G1) : \A orc \in Oracles : Run(G1, inp, orc) = Run(G2, inp, orc)

\* ForOp::promoteIfSingleIteration.
promoteIfSingleIteration(G, op) ==
  LET tripCount == constantTripCount(G, getLowerBound(G, op), getUpperBound(G, op),
                                     getStep(G, op))
      yieldOp == getTerminator(G, getBody(G, op))
      G1 == replaceAllUsesWithRange(G, getResults(G, op), getYieldedValues(G, op))
      G2 == inlineBlockBefore(G1, getBody(G, op), op,
                              <<getLowerBound(G, op)>> \o getInitArgs(G, op))
  IN IF ~tripCount.known \/ tripCount.n # 1 THEN Failure(G)
     ELSE Success(eraseOp(eraseOp(G2, yieldOp), op))

\* ------------------------------------------------------------------- scf.if
\* operands: <<condition>>; regions: <<then, else>>, the else region possibly
\* without a block.
getCondition(G, o) == G.ops[o].operands[1]
thenBlock(G, o) == G.ops[o].regions[1][1]
hasElse(G, o) == G.ops[o].regions[2] # <<>>
elseBlock(G, o) == G.ops[o].regions[2][1]
thenYield(G, o) == getTerminator(G, thenBlock(G, o))
elseYield(G, o) == getTerminator(G, elseBlock(G, o))

hasSingleElement(G, b) == Len(G.blocks[b].ops) = 1

setOperands(G, o, vs) == [G EXCEPT !.ops[o].operands = vs]

\* The region (owner, index) a value is defined in.
getParentRegion(G, v) ==
  LET b == IF v.k = "res" THEN getBlock(G, v.id) ELSE v.id
      o == getParentOp(G, b)
  IN IF o = -1 THEN <<-1, 0>>
     ELSE <<o, MinOf({r \in DOMAIN G.ops[o].regions : b \in Range(G.ops[o].regions[r])})>>

\* The operations nested in the region that holds block b.
OpsInRegionOf(G, b) == UNION {NestedOps(G, c) : c \in Range(G.blocks[b].ops)}

\* Move the blocks of region sr of operation s to the front of region dr of d.
inlineRegionBefore(G, s, sr, d, dr) ==
  [G EXCEPT !.ops =
     [o \in DOMAIN G.ops |->
        [G.ops[o] EXCEPT !.regions =
           [r \in DOMAIN G.ops[o].regions |->
              IF o = d /\ r = dr THEN G.ops[s].regions[sr] \o G.ops[d].regions[dr]
              ELSE IF o = s /\ r = sr THEN <<>>
              ELSE G.ops[o].regions[r]]]]]

\* m_Constant(&BoolAttr): an i1 constant.
isBoolConstant(G, v) == isConstant(G, v) /\ G.ops[v.id].types[1] = "i1"

\* m_One: a constant whose value is 1.
m_One(G, v) == isConstant(G, v) /\ getZExtValue(constantValue(G, v)) = 1

isXOrI(G, v) == v.k = "res" /\ G.ops[v.id].kind = "arith.xori"

IfOpRec(types, cond, thenR, elseR) == Operation("scf.if", <<cond>>, types, <<thenR, elseR>>, <<>>)

\* Create the operations recs, in order, before operation `before`.
RECURSIVE createAllBefore(_, _, _)
createAllBefore(G, before, recs) ==
  IF recs = <<>> THEN G
  ELSE createAllBefore(createBefore(G, before, Head(recs)), before, Tail(recs))

\* A variant of IfOp::fold that replaces the condition and leaves the
\* branches where they are.
IfOp_foldKeepingBranches(G, op) ==
  IF ~hasElse(G, op) THEN Failure(G)
  ELSE IF ~isXOrI(G, getCondition(G, op)) THEN Failure(G)
  ELSE IF ~m_One(G, G.ops[getCondition(G, op).id].operands[2]) THEN Failure(G)
  ELSE Success([G EXCEPT
                  !.ops[op].operands = <<G.ops[getCondition(G, op).id].operands[1]>>])

\* IfOp::fold: if (!c) then A else B  ->  if c then B else A, in place.
IfOp_fold(G, op) ==
  IF ~hasElse(G, op) THEN Failure(G)
  ELSE IF ~isXOrI(G, getCondition(G, op)) THEN Failure(G)
  ELSE IF ~m_One(G, G.ops[getCondition(G, op).id].operands[2]) THEN Failure(G)
  ELSE Success([G EXCEPT
                  !.ops[op].operands = <<G.ops[getCondition(G, op).id].operands[1]>>,
                  !.ops[op].regions = <<G.ops[op].regions[2], G.ops[op].regions[1]>>])

\* RemoveUnusedResults filtering the then yield only.
RemoveUnusedResultsThenOnly(G, op) ==
  LET n     == getNumResults(G, op)
      used  == [i \in 1 .. n |-> ~use_empty(G, Res(op, i))]
      newOp == G.next
      G1 == createBefore(G, op, IfOpRec(Filter(G.ops[op].types, used),
                                        getCondition(G, op), <<>>, <<>>))
      G2 == createBlock(createBlock(G1, newOp, 1, <<>>), newOp, 2, <<>>)
      G3 == mergeBlocks(G2, thenBlock(G2, op), thenBlock(G2, newOp), <<>>)
      G4 == setOperands(G3, thenYield(G3, newOp),
                        Filter(G3.ops[thenYield(G3, newOp)].operands, used))
      G5 == mergeBlocks(G4, elseBlock(G4, op), elseBlock(G4, newOp), <<>>)
      repResults == [i \in 1 .. n |->
                       IF used[i] THEN Res(newOp, Count(used, i)) ELSE NullValue]
  IN IF Count(used, n) = n THEN Failure(G)
     ELSE Success(replaceOp(G5, op, repResults))

\* RemoveUnusedResults: drop the results of an If that have no uses.
RemoveUnusedResults(G, op) ==
  LET n     == getNumResults(G, op)
      used  == [i \in 1 .. n |-> ~use_empty(G, Res(op, i))]
      newOp == G.next
      G1 == createBefore(G, op, IfOpRec(Filter(G.ops[op].types, used),
                                        getCondition(G, op), <<>>, <<>>))
      G2 == createBlock(createBlock(G1, newOp, 1, <<>>), newOp, 2, <<>>)
      \* transferBody for the then and the else block
      G3 == mergeBlocks(G2, thenBlock(G2, op), thenBlock(G2, newOp), <<>>)
      G4 == setOperands(G3, thenYield(G3, newOp),
                        Filter(G3.ops[thenYield(G3, newOp)].operands, used))
      G5 == mergeBlocks(G4, elseBlock(G4, op), elseBlock(G4, newOp), <<>>)
      G6 == setOperands(G5, elseYield(G5, newOp),
                        Filter(G5.ops[elseYield(G5, newOp)].operands, used))
      repResults == [i \in 1 .. n |->
                       IF used[i] THEN Res(newOp, Count(used, i)) ELSE NullValue]
  IN IF Count(used, n) = n THEN Failure(G)
     ELSE Success(replaceOp(G6, op, repResults))

\* RemoveStaticCondition: an If on a constant condition becomes its branch.
RemoveStaticCondition(G, op) ==
  IF ~isBoolConstant(G, getCondition(G, op)) THEN Failure(G)
  ELSE IF constantValue(G, getCondition(G, op)) # 0
  THEN Success(replaceOpWithRegion(G, op, thenBlock(G, op), <<>>))
  ELSE IF hasElse(G, op)
  THEN Success(replaceOpWithRegion(G, op, elseBlock(G, op), <<>>))
  ELSE Success(eraseOp(G, op))

\* ConvertTrivialIfToSelect looking at the then yield only.
ConvertTrivialIfToSelectThenOnly(G, op) ==
  LET n    == getNumResults(G, op)
      cond == getCondition(G, op)
      tv   == G.ops[thenYield(G, op)].operands
      fv   == G.ops[elseYield(G, op)].operands
      keep == [i \in 1 .. n |-> getParentRegion(G, tv[i]) = <<op, 1>>]
      sel  == [i \in 1 .. n |-> ~keep[i] /\ tv[i] # fv[i]]
      replacement == G.next
      G1 == createBefore(G, op, IfOpRec(Filter(G.ops[op].types, keep), cond,
                                        G.ops[op].regions[1], G.ops[op].regions[2]))
      G2 == [G1 EXCEPT !.ops[op].regions = <<<<>>, <<>>>>]
      selects == [i \in 1 .. n |->
                    Operation("arith.select", <<cond, tv[i], fv[i]>>,
                              <<G.ops[op].types[i]>>, <<>>, <<>>)]
      G3 == createAllBefore(G2, replacement, Filter(selects, sel))
      results == [i \in 1 .. n |->
                    IF keep[i] THEN Res(replacement, Count(keep, i))
                    ELSE IF tv[i] = fv[i] THEN tv[i]
                    ELSE Res(replacement + Count(sel, i), 1)]
      G4 == setOperands(G3, thenYield(G3, replacement), Filter(tv, keep))
      G5 == setOperands(G4, elseYield(G4, replacement), Filter(fv, keep))
  IN IF n = 0 THEN Failure(G)
     ELSE IF Count(keep, n) = n THEN Failure(G)
     ELSE Success(replaceOp(G5, op, results))

\* ConvertTrivialIfToSelect: hoist the yielded values defined outside the If
\* into arith.select operations.
ConvertTrivialIfToSelect(G, op) ==
  LET n    == getNumResults(G, op)
      cond == getCondition(G, op)
      tv   == G.ops[thenYield(G, op)].operands
      fv   == G.ops[elseYield(G, op)].operands
      keep == [i \in 1 .. n |-> \/ getParentRegion(G, tv[i]) = <<op, 1>>
                                \/ getParentRegion(G, fv[i]) = <<op, 2>>]
      sel  == [i \in 1 .. n |-> ~keep[i] /\ tv[i] # fv[i]]
      replacement == G.next
      G1 == createBefore(G, op, IfOpRec(Filter(G.ops[op].types, keep), cond,
                                        G.ops[op].regions[1], G.ops[op].regions[2]))
      G2 == [G1 EXCEPT !.ops[op].regions = <<<<>>, <<>>>>]
      selects == [i \in 1 .. n |->
                    Operation("arith.select", <<cond, tv[i], fv[i]>>,
                              <<G.ops[op].types[i]>>, <<>>, <<>>)]
      G3 == createAllBefore(G2, replacement, Filter(selects, sel))
      results == [i \in 1 .. n |->
                    IF keep[i] THEN Res(replacement, Count(keep, i))
                    ELSE IF tv[i] = fv[i] THEN tv[i]
                    ELSE Res(replacement + Count(sel, i), 1)]
      G4 == setOperands(G3, thenYield(G3, replacement), Filter(tv, keep))
      G5 == setOperands(G4, elseYield(G4, replacement), Filter(fv, keep))
  IN IF n = 0 THEN Failure(G)
     ELSE IF Count(keep, n) = n THEN Failure(G)
     ELSE Success(replaceOp(G5, op, results))

\* ReplaceIfYieldWithConditionOrValue, one result position after the other.
RECURSIVE ReplaceIfYieldLoop(_, _, _, _)
ReplaceIfYieldLoop(G, op, i, changed) ==
  IF i > getNumResults(G, op) THEN [ok |-> changed, g |-> G, ub |-> FALSE]
  ELSE
    LET trueResult  == G.ops[thenYield(G, op)].operands[i]
        falseResult == G.ops[elseYield(G, op)].operands[i]
        opResult    == Res(op, i)
        used        == ~use_empty(G, opResult)
        cond        == getCondition(G, op)
    IN IF trueResult = falseResult
       THEN IF used
            THEN ReplaceIfYieldLoop(replaceAllUsesWith(G, opResult, trueResult), op, i + 1, TRUE)
            ELSE ReplaceIfYieldLoop(G, op, i + 1, changed)
       ELSE IF ~isBoolConstant(G, trueResult) \/ ~isBoolConstant(G, falseResult)
       THEN ReplaceIfYieldLoop(G, op, i + 1, changed)
       ELSE IF constantValue(G, trueResult) = 0 /\ constantValue(G, falseResult) # 0 /\ used
       THEN LET one  == G.next
                G1   == createBefore(G, op, Operation("arith.constant", <<>>, <<"i1">>, <<>>, <<1>>))
                notCond == G1.next
                G2   == createBefore(G1, op, Operation("arith.xori", <<cond, Res(one, 1)>>,
                                                       <<"i1">>, <<>>, <<>>))
            IN ReplaceIfYieldLoop(replaceAllUsesWith(G2, opResult, Res(notCond, 1)),
                                  op, i + 1, TRUE)
       ELSE IF constantValue(G, trueResult) # 0 /\ constantValue(G, falseResult) = 0 /\ used
       THEN ReplaceIfYieldLoop(replaceAllUsesWith(G, opResult, cond), op, i + 1, TRUE)
       ELSE ReplaceIfYieldLoop(G, op, i + 1, changed)

\* A variant of ReplaceIfYieldWithConditionOrValue that skips the first
\* result position.
ReplaceIfYieldSkipFirst(G, op) ==
  IF getNumResults(G, op) = 0 THEN Failure(G)
  ELSE ReplaceIfYieldLoop(G, op, 2, FALSE)

ReplaceIfYieldWithConditionOrValue(G, op) ==
  IF getNumResults(G, op) = 0 THEN Failure(G)
  ELSE ReplaceIfYieldLoop(G, op, 1, FALSE)

\* RemoveEmptyElseBranch: drop an else block that only yields.
RemoveEmptyElseBranch(G, ifOp) ==
  IF getNumResults(G, ifOp) # 0 THEN Failure(G)
  ELSE IF ~hasElse(G, ifOp) THEN Failure(G)
  ELSE IF ~hasSingleElement(G, elseBlock(G, ifOp)) THEN Failure(G)
  ELSE LET newIfOp == G.next
           G1 == createBefore(G, ifOp, IfOpRec(<<>>, getCondition(G, ifOp), <<>>, <<>>))
           G2 == inlineRegionBefore(G1, ifOp, 1, newIfOp, 1)
       IN Success(eraseOp(G2, ifOp))

\* A variant of CombineIfsUses that takes the first If's then-yield for the
\* uses in either branch of the second If.
RECURSIVE CombineIfsUsesThenOnly(_, _, _, _, _, _)
CombineIfsUsesThenOnly(G, res, tv, ev, inThen, inElse) ==
  IF res = <<>> \/ tv = <<>> \/ ev = <<>> THEN G
  ELSE CombineIfsUsesThenOnly(
         replaceUsesWithIf(G, Head(res), Head(tv), inThen \cup inElse),
         Tail(res), Tail(tv), Tail(ev), inThen, inElse)

\* The first-If results used inside the second If are replaced by the
\* first If's then-yield (uses in nextThen's region) or else-yield (uses in
\* nextElse's region) operands.
RECURSIVE CombineIfsUses(_, _, _, _, _, _)
CombineIfsUses(G, res, tv, ev, inThen, inElse) ==
  IF res = <<>> \/ tv = <<>> \/ ev = <<>> THEN G
  ELSE CombineIfsUses(
         replaceUsesWithIf(replaceUsesWithIf(G, Head(res), Head(tv), inThen),
                           Head(res), Head(ev), inElse \ inThen),
         Tail(res), Tail(tv), Tail(ev), inThen, inElse)

\* Merge block `from` of the second If into block `into` of the combined If:
\* the two yields are replaced by one yield of both operand lists.
CombineIfsMerge(G, from, into) ==
  LET y1 == getTerminator(G, into)
      y2 == getTerminator(G, from)
      M  == mergeBlocks(G, from, into, <<>>)
      Y  == createAtEnd(M, into,
                        Operation("scf.yield", G.ops[y1].operands \o G.ops[y2].operands,
                                  <<>>, <<>>, <<>>))
  IN eraseOp(eraseOp(Y, y1), y2)

\* The then region of the first If moves into the combined If and the
\* matching block of the second If is merged into it.
CombineIfsThen(G, prevIf, combinedIf, nextThen) ==
  With(inlineRegionBefore(G, prevIf, 1, combinedIf, 1),
       LAMBDA G3 : IF nextThen = 0 THEN G3
                   ELSE CombineIfsMerge(G3, nextThen, thenBlock(G3, combinedIf)))

\* The else region of the first If moves into the combined If; the matching
\* block of the second If is merged into it, or taken over whole when the
\* combined If has no else block.
CombineIfsElse(G, prevIf, nextIf, combinedIf, nextElse) ==
  With(inlineRegionBefore(G, prevIf, 2, combinedIf, 2),
       LAMBDA G5 : IF nextElse = 0 THEN G5
                   ELSE IF ~hasElse(G5, combinedIf)
                   THEN inlineRegionBefore(G5, nextIf,
                                           getParentRegion(G5, Arg(nextElse, 1))[2],
                                           combinedIf, 2)
                   ELSE CombineIfsMerge(G5, nextElse, elseBlock(G5, combinedIf)))

\* CombineIfs: fuse an If with the If right before it when their conditions
\* are the same value or one is the negation of the other.  A block of 0
\* stands for "no such block".
CombineIfs(G, nextIf) ==
  LET parent == getBlock(G, nextIf)
      pos    == IndexOf(G.blocks[parent].ops, nextIf)
      prevIf == G.blocks[parent].ops[pos - 1]
      nc     == getCondition(G, nextIf)
      pc     == getCondition(G, prevIf)
      nThen  == thenBlock(G, nextIf)
      nElse  == IF hasElse(G, nextIf) THEN elseBlock(G, nextIf) ELSE 0
      same   == nc = pc
      nextIsNot == /\ isXOrI(G, nc) /\ G.ops[nc.id].operands[1] = pc
                   /\ m_One(G, G.ops[nc.id].operands[2])
      prevIsNot == /\ isXOrI(G, pc) /\ G.ops[pc.id].operands[1] = nc
                   /\ m_One(G, G.ops[pc.id].operands[2])
      swapped  == nextIsNot \/ prevIsNot
      nextThen == IF swapped THEN nElse ELSE IF same THEN nThen ELSE 0
      nextElse == IF swapped THEN nThen ELSE IF same THEN nElse ELSE 0
      prevElseYielded == IF hasElse(G, prevIf) THEN G.ops[elseYield(G, prevIf)].operands
                         ELSE <<>>
      combinedIf == G.next
      np == getNumResults(G, prevIf)
      nn == getNumResults(G, nextIf)
      prevValues == [i \in 1 .. np |-> Res(combinedIf, i)]
      nextValues == [i \in 1 .. nn |-> Res(combinedIf, np + i)]
      G1 == CombineIfsUses(G, getResults(G, prevIf), G.ops[thenYield(G, prevIf)].operands,
                           prevElseYielded,
                           IF nextThen # 0 THEN OpsInRegionOf(G, nextThen) ELSE {},
                           IF nextElse # 0 THEN OpsInRegionOf(G, nextElse) ELSE {})
      G2 == createBefore(G1, nextIf,
                         IfOpRec(G.ops[prevIf].types \o G.ops[nextIf].types, pc, <<>>, <<>>))
  IN IF pos = 1 THEN Failure(G)
     ELSE IF G.ops[prevIf].kind # "scf.if" THEN Failure(G)
     ELSE IF nextThen = 0 /\ nextElse = 0 THEN Failure(G)
     ELSE With(G2, LAMBDA A :
          With(CombineIfsThen(A, prevIf, combinedIf, nextThen), LAMBDA B :
          With(CombineIfsElse(B, prevIf, nextIf, combinedIf, nextElse), LAMBDA C :
          Success(replaceOp(replaceOp(C, prevIf, prevValues), nextIf, nextValues)))))

\* A variant of elseYieldMismatch that accepts every position.
elseYieldMismatchNever(G, op, nestedIf) == FALSE

\* A position of the outer If yields a result of the nested If whose else
\* value differs from the outer else value.
elseYieldMismatch(G, op, nestedIf) ==
  LET thenY == G.ops[thenYield(G, op)].operands
      elseY == IF hasElse(G, op) THEN G.ops[elseYield(G, op)].operands ELSE <<>>
  IN \E i \in DOMAIN thenY :
       /\ getDefiningOp(G, thenY[i]) = nestedIf
       /\ G.ops[elseYield(G, nestedIf)].operands[thenY[i].i] # elseY[i]

\* CombineNestedIfs: if a { if b { .. } }  ->  if a & b { .. }.
CombineNestedIfs(G, op) ==
  LET tb       == thenBlock(G, op)
      nestedIf == Head(G.blocks[tb].ops)
      thenY    == G.ops[thenYield(G, op)].operands
      elseY    == IF hasElse(G, op) THEN G.ops[elseYield(G, op)].operands ELSE <<>>
      fromNested == [i \in DOMAIN thenY |-> getDefiningOp(G, thenY[i]) = nestedIf]
      mismatch == elseYieldMismatch(G, op, nestedIf)
      inside   == \E i \in DOMAIN thenY :
                    ~fromNested[i] /\ getParentRegion(G, thenY[i]) = <<op, 1>>
      \* the first position that makes the loop return failure decides; both
      \* kinds of position return failure
      newThenYield == [i \in DOMAIN thenY |->
                         IF fromNested[i] THEN G.ops[thenYield(G, nestedIf)].operands[thenY[i].i]
                         ELSE thenY[i]]
      upgrade == [i \in DOMAIN thenY |-> ~fromNested[i]]
      andOp == G.next
      G1 == createBefore(G, op, Operation("arith.andi",
                                          <<getCondition(G, op), getCondition(G, nestedIf)>>,
                                          <<"i1">>, <<>>, <<>>))
      newIf == G1.next
      G2 == createBefore(G1, op, IfOpRec(G.ops[op].types, Res(andOp, 1), <<>>, <<>>))
      newIfBlock == G2.next
      G3 == createBlock(G2, newIf, 1, <<>>)
      firstSelect == G3.next
      selects == [i \in DOMAIN thenY |->
                    Operation("arith.select", <<getCondition(G, op), newThenYield[i], elseY[i]>>,
                              <<G.ops[op].types[i]>>, <<>>, <<>>)]
      G4 == createAllBefore(G3, newIf, Filter(selects, upgrade))
      results == [i \in DOMAIN thenY |->
                    IF upgrade[i] THEN Res(firstSelect + Count(upgrade, i) - 1, 1)
                    ELSE Res(newIf, i)]
      G5 == mergeBlocks(G4, thenBlock(G4, nestedIf), newIfBlock, <<>>)
      G6 == setOperands(G5, thenYield(G5, newIf), newThenYield)
      elseB == G6.next
      G7 == IF elseY = <<>> THEN G6
            ELSE createAtEnd(createBlock(G6, newIf, 2, <<>>), elseB,
                             Operation("scf.yield", elseY, <<>>, <<>>, <<>>))
  IN IF Len(G.blocks[tb].ops) # 2 THEN Failure(G)
     ELSE IF hasElse(G, op) /\ ~hasSingleElement(G, elseBlock(G, op)) THEN Failure(G)
     ELSE IF G.ops[nestedIf].kind # "scf.if" THEN Failure(G)
     ELSE IF hasElse(G, nestedIf) /\ ~hasSingleElement(G, elseBlock(G, nestedIf))
     THEN Failure(G)
     ELSE IF mismatch \/ inside THEN Failure(G)
     ELSE Success(replaceOp(G7, op, results))

\* --------------------------------------------------------- scf.index_switch
\* operands: <<arg>>; attr: the case values; regions: the default region
\* followed by one region per case value.
getCases(G, o) == G.ops[o].attr
getNumCases(G, o) == Len(G.ops[o].attr)

\* A variant of selectCaseRegion that forgets that the default region comes
\* first in the region list.
selectCaseRegionOffByOne(G, op, cst) ==
  LET hits == {j \in DOMAIN getCases(G, op) : getCases(G, op)[j] = cst}
  IN IF hits = {} THEN 1 ELSE MinOf(hits)

\* The region FoldConstantCase selects: the first case equal to cst, or the
\* default region.
selectCaseRegion(G, op, cst) ==
  LET hits == {j \in DOMAIN getCases(G, op) : getCases(G, op)[j] = cst}
  IN IF hits = {} THEN 1 ELSE 1 + MinOf(hits)

\* FoldConstantCase: a switch on a constant becomes the body of its case.
FoldConstantCase(G, op) ==
  IF ~hasConstantIntValue(G, G.ops[op].operands[1]) THEN Failure(G)
  ELSE LET cst == getConstantIntValue(G, G.ops[op].operands[1])
           source == G.ops[op].regions[selectCaseRegion(G, op, cst)][1]
           terminator == getTerminator(G, source)
           results == G.ops[terminator].operands
           G1 == inlineBlockBefore(G, source, op, <<>>)
           G2 == eraseOp(G1, terminator)
       IN Success(replaceOp(G2, op, results))

\* ---------------------------------------------------------------- scf.while
\* operands: the inits; regions: <<before, after>>; the before block ends in
\* scf.condition(cond, args), the after block in scf.yield.
getBeforeBody(G, o) == G.ops[o].regions[1][1]
getAfterBody(G, o) == G.ops[o].regions[2][1]
getConditionOp(G, o) == getTerminator(G, getBeforeBody(G, o))
getConditionArgs(G, o) == Tail(G.ops[getConditionOp(G, o)].operands)
getYieldOp(G, o) == getTerminator(G, getAfterBody(G, o))

WhileOpRec(types, inits, before, after) ==
  Operation("scf.while", inits, types, <<before, after>>, <<>>)

\* Create rec before op and replace op by the results of the new operation.
replaceOpWithNewOp(G, op, rec) ==
  replaceOp(createBefore(G, op, rec), op, [i \in DOMAIN rec.types |-> Res(G.next, i)])

ConditionOp(cond, args) == Operation("scf.condition", <<cond>> \o args, <<>>, <<>>, <<>>)

getAfterArguments(G, o) == getArguments(G, getAfterBody(G, o))
getBeforeArguments(G, o) == getArguments(G, getBeforeBody(G, o))

\* The block a value is defined in.
getParentBlock(G, v) == IF v.k = "res" THEN getBlock(G, v.id) ELSE v.id

\* WhileOp::build with null body callbacks: the op is G.next, its before
\* block G.next + 1 with the types of the inits, its after block G.next + 2
\* with the result types; both blocks are empty.
WhileOp_build(G, before, resultTypes, inits) ==
  LET A == createBefore(G, before, WhileOpRec(resultTypes, inits, <<>>, <<>>))
      B == createBlock(A, G.next, 1, [i \in DOMAIN inits |-> getType(G, inits[i])])
  IN createBlock(B, G.next, 2, resultTypes)

\* Block::eraseArguments: drop the arguments marked in erase; the uses of
\* the remaining arguments follow the renumbering.
eraseArguments(G, b, erase) ==
  LET keep == [i \in DOMAIN erase |-> ~erase[i]]
      renumber(v) == IF v.k = "arg" /\ v.id = b /\ v.i \in DOMAIN keep /\ keep[v.i]
                     THEN Arg(b, Count(keep, v.i)) ELSE v
  IN [G EXCEPT
        !.ops = [o \in DOMAIN G.ops |->
                   [G.ops[o] EXCEPT !.operands = [j \in DOMAIN @ |-> renumber(@[j])]]],
        !.blocks[b].args = Filter(@, keep)]

\* WhileConditionTruth creating the constant before looking at the uses.
WhileConditionTruthEagerConstant(G, op) ==
  LET term == getConditionOp(G, op)
      cond == G.ops[term].operands[1]
      args == getConditionArgs(G, op)
      after == getAfterArguments(G, op)
      n == IF Len(args) <= Len(after) THEN Len(args) ELSE Len(after)
      hit == {i \in 1 .. n : args[i] = cond /\ ~use_empty(G, after[i])}
      constantTrue == Res(G.next, 1)
      RECURSIVE ReplaceAll(_, _)
      ReplaceAll(A, S) ==
        IF S = {} THEN A
        ELSE ReplaceAll(replaceAllUsesWith(A, after[MinOf(S)], constantTrue), S \ {MinOf(S)})
  IN IF \A i \in 1 .. n : args[i] # cond THEN Failure(G)
     ELSE With(createBefore(G, op, ConstantOp(getType(G, cond), 1)), LAMBDA A :
            IF hit = {} THEN Failure(A) ELSE Success(ReplaceAll(A, hit)))

\* WhileConditionTruth: inside the after block the loop condition is true.
WhileConditionTruth(G, op) ==
  LET term == getConditionOp(G, op)
      cond == G.ops[term].operands[1]
      args == getConditionArgs(G, op)
      after == getAfterArguments(G, op)
      n == IF Len(args) <= Len(after) THEN Len(args) ELSE Len(after)
      hit == {i \in 1 .. n : args[i] = cond /\ ~use_empty(G, after[i])}
      constantTrue == Res(G.next, 1)
      RECURSIVE ReplaceAll(_, _)
      ReplaceAll(A, S) ==
        IF S = {} THEN A
        ELSE ReplaceAll(replaceAllUsesWith(A, after[MinOf(S)], constantTrue), S \ {MinOf(S)})
  IN IF hit = {} THEN Failure(G)
     ELSE With(createBefore(G, op, ConstantOp(getType(G, cond), 1)), LAMBDA A :
            Success(ReplaceAll(A, hit)))

\* RemoveLoopInvariantValueYielded: a condition argument that is not defined
\* in the before block replaces its after-block argument and its result.
RemoveLoopInvariantValueYielded(G, op) ==
  LET beforeBlock == getBeforeBody(G, op)
      condOp == getConditionOp(G, op)
      condOpArgs == getConditionArgs(G, op)
      afterBlock == getAfterBody(G, op)
      keep == [i \in DOMAIN condOpArgs |-> getParentBlock(G, condOpArgs[i]) = beforeBlock]
      newCondOpArgs == Filter(condOpArgs, keep)
      newAfterBlockType == [i \in DOMAIN newCondOpArgs |-> getType(G, newCondOpArgs[i])]
      newWhile == G.next + 1
      newAfterBlock == G.next + 2
      n == Len(G.blocks[afterBlock].args)
      newAfterBlockArgs == [i \in 1 .. n |-> IF i \in DOMAIN keep /\ ~keep[i] THEN condOpArgs[i]
                                             ELSE Arg(newAfterBlock, Count(keep, i))]
      newWhileResults == [i \in 1 .. n |-> IF i \in DOMAIN keep /\ ~keep[i] THEN condOpArgs[i]
                                           ELSE Res(newWhile, Count(keep, i))]
  IN IF \A i \in DOMAIN keep : keep[i] THEN Failure(G)
     ELSE With(replaceOpWithNewOp(G, condOp,
                                  ConditionOp(G.ops[condOp].operands[1], newCondOpArgs)),
               LAMBDA A :
          With(createBlock(createBefore(A, op, WhileOpRec(newAfterBlockType, G.ops[op].operands,
                                                          <<>>, <<>>)),
                           newWhile, 2, newAfterBlockType), LAMBDA B :
          With(mergeBlocks(B, afterBlock, newAfterBlock, newAfterBlockArgs), LAMBDA C :
            Success(replaceOp(inlineRegionBefore(C, op, 1, newWhile, 1), op,
                              newWhileResults)))))

\* WhileUnusedResult: drop the results that have no use and whose
\* after-block argument has no use.
WhileUnusedResult(G, op) ==
  LET term == getConditionOp(G, op)
      afterArgs == getAfterArguments(G, op)
      termArgs == getConditionArgs(G, op)
      n == MinOf({getNumResults(G, op), Len(afterArgs), Len(termArgs)})
      keep == [i \in 1 .. n |->
                 ~(use_empty(G, Res(op, i)) /\ use_empty(G, afterArgs[i]))]
      newTermArgs == Filter(SubSeq(termArgs, 1, n), keep)
      newResultTypes == Filter(SubSeq(G.ops[op].types, 1, n), keep)
      newWhile == G.next + 1
      newAfterBlock == G.next + 2
      newResults == [i \in 1 .. getNumResults(G, op) |->
                       IF i <= n /\ keep[i] THEN Res(newWhile, Count(keep, i)) ELSE NullValue]
      newAfterBlockArgs == [i \in 1 .. getNumResults(G, op) |->
                              IF i <= n /\ keep[i] THEN Arg(newAfterBlock, Count(keep, i))
                              ELSE NullValue]
  IN IF \A i \in 1 .. n : keep[i] THEN Failure(G)
     ELSE With(replaceOpWithNewOp(G, term, ConditionOp(G.ops[term].operands[1], newTermArgs)),
               LAMBDA A :
          With(createBlock(createBefore(A, op, WhileOpRec(newResultTypes, G.ops[op].operands,
                                                          <<>>, <<>>)),
                           newWhile, 2, newResultTypes), LAMBDA B :
          With(mergeBlocks(inlineRegionBefore(B, op, 1, newWhile, 1),
                           getAfterBody(G, op), newAfterBlock, newAfterBlockArgs), LAMBDA C :
            Success(replaceOp(C, op, newResults)))))

\* arith::invertPredicate on the CmpIPredicate numbers: eq/ne, slt/sge,
\* sle/sgt, ult/uge, ule/ugt.
invertPredicate(p) ==
  CASE p = 0 -> 1 [] p = 1 -> 0 [] p = 2 -> 5 [] p = 5 -> 2 [] p = 3 -> 4
    [] p = 4 -> 3 [] p = 6 -> 9 [] p = 9 -> 6 [] p = 7 -> 8 [] OTHER -> 7

isCmpIOp(G, o) == G.ops[o].kind = "arith.cmpi"

\* A variant of WhileCmpCondMatches that does not compare the operands on
\* the other side.
WhileCmpCondMatchesAnyOther(G, op) ==
  LET cond == getConditionOp(G, op)
      cmp  == G.ops[cond].operands[1].id
      args == getConditionArgs(G, op)
      after == getAfterArguments(G, op)
      n == IF Len(args) <= Len(after) THEN Len(args) ELSE Len(after)
  IN {cmp2 \in DOMAIN G.ops :
        /\ isCmpIOp(G, cmp2)
        /\ G.ops[cmp2].attr[1] \in {G.ops[cmp].attr[1], invertPredicate(G.ops[cmp].attr[1])}
        /\ \E i \in 1 .. n : \E opIdx \in 1 .. 2 :
             /\ args[i] = G.ops[cmp].operands[opIdx]
             /\ \E j \in DOMAIN G.ops[cmp2].operands : G.ops[cmp2].operands[j] = after[i]}

\* The comparisons WhileCmpCond replaces: cmp2 uses an after-block argument
\* whose condition argument is operand opIdx of the loop condition cmp, its
\* operand on the other side is cmp's operand on the other side, and its
\* predicate is cmp's or the inverse of cmp's.
WhileCmpCondMatches(G, op) ==
  LET cond == getConditionOp(G, op)
      cmp  == G.ops[cond].operands[1].id
      args == getConditionArgs(G, op)
      after == getAfterArguments(G, op)
      n == IF Len(args) <= Len(after) THEN Len(args) ELSE Len(after)
  IN {cmp2 \in DOMAIN G.ops :
        /\ isCmpIOp(G, cmp2)
        /\ G.ops[cmp2].attr[1] \in {G.ops[cmp].attr[1], invertPredicate(G.ops[cmp].attr[1])}
        /\ \E i \in 1 .. n : \E opIdx \in 1 .. 2 :
             /\ args[i] = G.ops[cmp].operands[opIdx]
             /\ \E j \in DOMAIN G.ops[cmp2].operands : G.ops[cmp2].operands[j] = after[i]
             /\ G.ops[cmp2].operands[3 - opIdx] = G.ops[cmp].operands[3 - opIdx]}

RECURSIVE WhileCmpCondReplace(_, _, _)
WhileCmpCondReplace(G, pred, S) ==
  IF S = {} THEN G
  ELSE LET cmp2 == MinOf(S)
           samePredicate == IF G.ops[cmp2].attr[1] = pred THEN 1 ELSE 0
       IN With(replaceOpWithNewOp(G, cmp2, ConstantOp("i1", samePredicate)), LAMBDA A :
            WhileCmpCondReplace(A, pred, S \ {cmp2}))

\* WhileCmpCond: a comparison in the after block that repeats the loop
\* condition is true, one with the inverted predicate is false.
WhileCmpCond(G, op) ==
  LET c == G.ops[getConditionOp(G, op)].operands[1]
  IN IF ~(c.k = "res" /\ isCmpIOp(G, c.id)) THEN Failure(G)
     ELSE IF WhileCmpCondMatches(G, op) = {} THEN Failure(G)
     ELSE Success(WhileCmpCondReplace(G, G.ops[c.id].attr[1], WhileCmpCondMatches(G, op)))

\* WhileRemoveUnusedArgs: drop the before-block arguments without uses
\* together with their inits and yielded values.
WhileRemoveUnusedArgs(G, op) ==
  LET beforeArgs == getBeforeArguments(G, op)
      yield == getYieldOp(G, op)
      n == MinOf({Len(beforeArgs), Len(G.ops[yield].operands), Len(G.ops[op].operands)})
      argsToErase == [i \in 1 .. n |-> use_empty(G, beforeArgs[i])]
      keep == [i \in 1 .. n |-> ~argsToErase[i]]
      newYields == Filter(SubSeq(G.ops[yield].operands, 1, n), keep)
      newInits == Filter(SubSeq(G.ops[op].operands, 1, n), keep)
      beforeBlock == getBeforeBody(G, op)
      afterBlock == getAfterBody(G, op)
      newWhileOp == G.next
      newBeforeBlock == G.next + 1
      newAfterBlock == G.next + 2
  IN IF \A i \in DOMAIN beforeArgs : ~use_empty(G, beforeArgs[i]) THEN Failure(G)
     ELSE With(WhileOp_build(eraseArguments(G, beforeBlock, argsToErase), op,
                             G.ops[op].types, newInits), LAMBDA A :
          With(replaceOpWithNewOp(A, yield, YieldOp(newYields)), LAMBDA B :
          With(mergeBlocks(B, beforeBlock, newBeforeBlock, getArguments(B, newBeforeBlock)),
               LAMBDA C :
          With(mergeBlocks(C, afterBlock, newAfterBlock, getArguments(C, newAfterBlock)),
               LAMBDA D :
            Success(replaceOp(D, op, getResults(D, newWhileOp)))))))

\* The position of the first occurrence of each element of s.
firstPositions(s) == {i \in DOMAIN s : \A j \in 1 .. i - 1 : s[j] # s[i]}

\* WhileRemoveDuplicatedResults: a value passed several times to
\* scf.condition is passed once.
WhileRemoveDuplicatedResults(G, op) ==
  LET condOp == getConditionOp(G, op)
      condOpArgs == getConditionArgs(G, op)
      first == firstPositions(condOpArgs)
      keep == [i \in DOMAIN condOpArgs |-> i \in first]
      newArgs == Filter(condOpArgs, keep)
      pos(i) == Count(keep, IndexOf(condOpArgs, condOpArgs[i]))
      newWhileOp == G.next
      newBeforeBlock == G.next + 1
      newAfterBlock == G.next + 2
      afterArgsMapping == [i \in DOMAIN condOpArgs |-> Arg(newAfterBlock, pos(i))]
      resultsMapping == [i \in DOMAIN condOpArgs |-> Res(newWhileOp, pos(i))]
  IN IF Cardinality(Range(condOpArgs)) = Len(condOpArgs) THEN Failure(G)
     ELSE With(WhileOp_build(G, op, [i \in DOMAIN newArgs |-> getType(G, newArgs[i])],
                             G.ops[op].operands), LAMBDA A :
          With(replaceOpWithNewOp(A, condOp,
                                  ConditionOp(G.ops[condOp].operands[1], newArgs)), LAMBDA B :
          With(mergeBlocks(B, getBeforeBody(G, op), newBeforeBlock,
                           getArguments(B, newBeforeBlock)), LAMBDA C :
          With(mergeBlocks(C, getAfterBody(G, op), newAfterBlock, afterArgsMapping),
               LAMBDA D :
            Success(replaceOp(D, op, resultsMapping))))))

hasDuplicates(args) == Cardinality(Range(args)) # Len(args)

\* getArgsMapping: when args1 and args2 have the same length and every value
\* of args1 occurs in args2, the list that holds i at the first position of
\* args1[i] in args2 (the last such i, the first index where there is none).
getArgsMapping(args1, args2) ==
  IF Len(args1) # Len(args2) \/ \E i \in DOMAIN args1 : args1[i] \notin Range(args2)
  THEN [ok |-> FALSE, ret |-> <<>>]
  ELSE [ok |-> TRUE,
        ret |-> [p \in DOMAIN args2 |->
                   LET is == {i \in DOMAIN args1 : IndexOf(args2, args1[i]) = p}
                   IN IF is = {} THEN 1 ELSE CHOOSE i \in is : \A k \in is : k <= i]]

\* A variant of WhileOpAlignBeforeArgs that reads the argument mapping in the
\* other direction.
WhileOpAlignBeforeArgsInverted(G, loop) ==
  LET oldBefore == getBeforeBody(G, loop)
      oldTerm == getConditionOp(G, loop)
      beforeArgs == getArguments(G, oldBefore)
      termArgs == getConditionArgs(G, loop)
      mapping == getArgsMapping(termArgs, beforeArgs)
      oldAfter == getAfterBody(G, loop)
      n == Len(beforeArgs)
      newLoop == G.next + 1
      newBefore == G.next + 2
      newAfter == G.next + 3
      newResults == [i \in 1 .. n |-> Res(newLoop, mapping.ret[i])]
      newAfterArgs == [i \in 1 .. n |-> Arg(newAfter, mapping.ret[i])]
  IN IF beforeArgs = termArgs THEN Failure(G)
     ELSE IF hasDuplicates(termArgs) THEN Failure(G)
     ELSE IF ~mapping.ok THEN Failure(G)
     ELSE With(replaceOpWithNewOp(G, oldTerm,
                                  ConditionOp(G.ops[oldTerm].operands[1], beforeArgs)),
               LAMBDA A :
          With(WhileOp_build(A, loop, G.ops[loop].types, G.ops[loop].operands), LAMBDA B :
          With(mergeBlocks(B, oldBefore, newBefore, getArguments(B, newBefore)), LAMBDA C :
          With(mergeBlocks(C, oldAfter, newAfter, newAfterArgs), LAMBDA D :
            Success(replaceOp(D, loop, newResults))))))

\* WhileOpAlignBeforeArgs: when scf.condition forwards the before-block
\* arguments in another order, put them in the order of the block arguments.
WhileOpAlignBeforeArgs(G, loop) ==
  LET oldBefore == getBeforeBody(G, loop)
      oldTerm == getConditionOp(G, loop)
      beforeArgs == getArguments(G, oldBefore)
      termArgs == getConditionArgs(G, loop)
      mapping == getArgsMapping(beforeArgs, termArgs)
      oldAfter == getAfterBody(G, loop)
      n == Len(beforeArgs)
      newResultTypes == [j \in 1 .. n |->
                           LET is == {i \in 1 .. n : mapping.ret[i] = j}
                           IN IF is = {} THEN "none"
                              ELSE G.ops[loop].types[CHOOSE i \in is : \A k \in is : k <= i]]
      newLoop == G.next + 1
      newBefore == G.next + 2
      newAfter == G.next + 3
      newResults == [i \in 1 .. n |-> Res(newLoop, mapping.ret[i])]
      newAfterArgs == [i \in 1 .. n |-> Arg(newAfter, mapping.ret[i])]
  IN IF beforeArgs = termArgs THEN Failure(G)
     ELSE IF hasDuplicates(termArgs) THEN Failure(G)
     ELSE IF ~mapping.ok THEN Failure(G)
     ELSE With(replaceOpWithNewOp(G, oldTerm,
                                  ConditionOp(G.ops[oldTerm].operands[1], beforeArgs)),
               LAMBDA A :
          With(WhileOp_build(A, loop, newResultTypes, G.ops[loop].operands), LAMBDA B :
          With(mergeBlocks(B, oldBefore, newBefore, getArguments(B, newBefore)), LAMBDA C :
          With(mergeBlocks(C, oldAfter, newAfter, newAfterArgs), LAMBDA D :
            Success(replaceOp(D, loop, newResults))))))

\* A variant of isLoopInvariantBeforeArg that takes any yielded after-block
\* argument as proof of invariance.
isLoopInvariantBeforeArgAnyAfterArg(G, op, i) ==
  LET initVal    == G.ops[op].operands[i]
      yieldOpArg == G.ops[getYieldOp(G, op)].operands[i]
  IN \/ yieldOpArg = initVal
     \/ yieldOpArg.k = "arg" /\ yieldOpArg.id = getAfterBody(G, op)

\* Before-block argument i is a loop invariant: the yield passes the init
\* value, or an after-block argument k whose condition operand is the
\* before-block argument i or the init value.
isLoopInvariantBeforeArg(G, op, i) ==
  LET initVal    == G.ops[op].operands[i]
      yieldOpArg == G.ops[getYieldOp(G, op)].operands[i]
  IN \/ yieldOpArg = initVal
     \/ /\ yieldOpArg.k = "arg" /\ yieldOpArg.id = getAfterBody(G, op)
        /\ \/ getConditionArgs(G, op)[yieldOpArg.i] = Arg(getBeforeBody(G, op), i)
           \/ getConditionArgs(G, op)[yieldOpArg.i] = initVal

RemoveLoopInvariantArgsFromBeforeBlock(G, op) ==
  LET yieldOp == getYieldOp(G, op)
      yieldOpArgs == G.ops[yieldOp].operands
      inits == G.ops[op].operands
      n == IF Len(inits) <= Len(yieldOpArgs) THEN Len(inits) ELSE Len(yieldOpArgs)
      keep == [i \in 1 .. n |-> ~isLoopInvariantBeforeArg(G, op, i)]
      newInitArgs == Filter(SubSeq(inits, 1, n), keep)
      newYieldOpArgs == Filter(SubSeq(yieldOpArgs, 1, n), keep)
      G1 == replaceOpWithNewOp(G, yieldOp, YieldOp(newYieldOpArgs))
      newWhile == G1.next
      G2 == createBefore(G1, op, WhileOpRec(G.ops[op].types, newInitArgs, <<>>, <<>>))
      newBeforeBlock == G2.next
      G3 == createBlock(G2, newWhile, 1, [j \in DOMAIN newYieldOpArgs |->
                                            getType(G, newYieldOpArgs[j])])
      beforeBlock == getBeforeBody(G, op)
      newBeforeBlockArgs ==
        [i \in 1 .. Len(G.blocks[beforeBlock].args) |->
           IF i <= n /\ ~keep[i] THEN inits[i]
           ELSE Arg(newBeforeBlock, Count(keep, IF i <= n THEN i ELSE n) + (IF i <= n THEN 0 ELSE i - n))]
      G4 == mergeBlocks(G3, beforeBlock, newBeforeBlock, newBeforeBlockArgs)
      G5 == inlineRegionBefore(G4, op, 2, newWhile, 2)
  IN IF Count(keep, n) = n THEN Failure(G)
     ELSE Success(replaceOp(G5, op, getResults(G5, newWhile)))

\* ------------------------------------------------------------------ verify
\* The operations reachable from the function.
Attached(G) == NestedOps(G, 0)

\* Region r of o has exactly one block and that block ends in an operation
\* of the given kind.
endsIn(G, o, r, kind) ==
  /\ hasOneBlock(G, o, r)
  /\ G.blocks[G.ops[o].regions[r][1]].ops # <<>>
  /\ G.ops[getTerminator(G, G.ops[o].regions[r][1])].kind = kind

typesOf(G, vs) == [i \in DOMAIN vs |-> getType(G, vs[i])]

\* ForOp::verify.
ForOp_verify(G, o) == Len(getInitArgs(G, o)) = getNumResults(G, o)

\* ForOp::verifyRegions.
ForOp_verifyRegions(G, o) ==
  /\ hasOneBlock(G, o, 1)
  /\ G.blocks[getBody(G, o)].args # <<>>
  /\ G.blocks[getBody(G, o)].args[1] = getType(G, getLowerBound(G, o))
  /\ Len(getRegionIterArgs(G, o)) = getNumResults(G, o)
  /\ \A i \in 1 .. MinOf({Len(getInitArgs(G, o)), Len(getRegionIterArgs(G, o)),
                          getNumResults(G, o)}) :
       /\ getType(G, getInitArgs(G, o)[i]) = G.ops[o].types[i]
       /\ getType(G, getRegionIterArgs(G, o)[i]) = G.ops[o].types[i]

\* IfOp::verify.
IfOp_verify(G, o) == getNumResults(G, o) # 0 => G.ops[o].regions[2] # <<>>

\* WhileOp::verify.
WhileOp_verify(G, o) == endsIn(G, o, 1, "scf.condition") /\ endsIn(G, o, 2, "scf.yield")

\* verifyListOfOperandsOrIntegers: one static entry per loop and one operand
\* per dynamic entry.
verifyListOfOperandsOrIntegers(numLoops, static, dynamic) ==
  /\ Len(static) = numLoops
  /\ Cardinality({i \in DOMAIN static : static[i] = kDynamic}) = Len(dynamic)

\* ForallOp::verify.
ForallOp_verify(G, o) ==
  LET numLoops == getRank(G, o)
      outputs == getOutputs(G, o)
  IN /\ getNumResults(G, o) = Len(outputs)
     /\ hasBody(G, o)
     /\ LET args == G.blocks[getBody(G, o)].args
        IN /\ Len(args) = numLoops + Len(outputs)
           /\ \A i \in 1 .. numLoops : args[i] = "index"
           /\ \A i \in DOMAIN outputs : args[numLoops + i] = getType(G, outputs[i])
     /\ G.ops[o].attr.mapping # <<>> => Len(G.ops[o].attr.mapping) = numLoops
     /\ verifyListOfOperandsOrIntegers(numLoops, G.ops[o].attr.staticLowerBound,
                                       getDynamicLowerBound(G, o))
     /\ verifyListOfOperandsOrIntegers(numLoops, G.ops[o].attr.staticUpperBound,
                                       getDynamicUpperBound(G, o))
     /\ verifyListOfOperandsOrIntegers(numLoops, G.ops[o].attr.staticStep,
                                       getDynamicStep(G, o))

\* ParallelOp::verify.
ParallelOp_verify(G, o) ==
  LET stepValues == ParallelOp_getStep(G, o)
  IN /\ stepValues # <<>>
     /\ \A i \in DOMAIN stepValues :
          hasConstantIntValue(G, stepValues[i]) => getConstantIntValue(G, stepValues[i]) > 0
     /\ hasBody(G, o)
     /\ Len(G.blocks[getBody(G, o)].args) = Len(stepValues)
     /\ \A i \in DOMAIN G.blocks[getBody(G, o)].args :
          G.blocks[getBody(G, o)].args[i] = "index"
     /\ endsIn(G, o, 1, "scf.reduce")
     /\ LET reduceOp == getTerminator(G, getBody(G, o))
        IN /\ getNumResults(G, o) = Len(G.ops[reduceOp].regions)
           /\ getNumResults(G, o) = Len(getInitVals(G, o))
           /\ \A i \in DOMAIN G.ops[reduceOp].regions :
                G.ops[o].types[i] = getType(G, G.ops[reduceOp].operands[i])

\* A variant of IndexSwitchOp::verify without the duplicate check.
IndexSwitchOp_verifyAllowingDuplicates(G, o) ==
  LET verifyRegion(r) ==
        /\ endsIn(G, o, r, "scf.yield")
        /\ typesOf(G, G.ops[getTerminator(G, G.ops[o].regions[r][1])].operands)
             = G.ops[o].types
  IN /\ getNumCases(G, o) = Len(G.ops[o].regions) - 1
     /\ \A r \in DOMAIN G.ops[o].regions : verifyRegion(r)

\* IndexSwitchOp::verify.
IndexSwitchOp_verify(G, o) ==
  LET verifyRegion(r) ==
        /\ endsIn(G, o, r, "scf.yield")
        /\ typesOf(G, G.ops[getTerminator(G, G.ops[o].regions[r][1])].operands)
             = G.ops[o].types
  IN /\ getNumCases(G, o) = Len(G.ops[o].regions) - 1
     /\ \A i, j \in DOMAIN getCases(G, o) :
          getCases(G, o)[i] = getCases(G, o)[j] => i = j
     /\ \A r \in DOMAIN G.ops[o].regions : verifyRegion(r)

\* ------------------------------------------------------------------- state
VARIABLES ir, pre, last, steps

vars == <<ir, pre, last, steps>>

NoPattern == [pattern |-> "none", op |-> -1, ok |-> FALSE, ub |-> FALSE]

\* One application of a pattern to a root operation: the rewriter's graph is
\* the pattern's graph whether it reports success or failure.  Nothing is
\* known of the run after an application with undefined behaviour.
Apply(name, o, r) ==
  /\ steps < MaxSteps
  /\ ~last.ub
  /\ r.ok \/ r.g # ir \/ r.ub
  /\ ir' = r.g
  /\ pre' = ir
  /\ last' = [pattern |-> name, op |-> o, ok |-> r.ok, ub |-> r.ub]
  /\ steps' = steps + 1

OpsOfKind(G, kind) == {o \in DOMAIN G.ops : G.ops[o].kind = kind}

Start(seeds) ==
  /\ ir \in seeds
  /\ pre = ir
  /\ last = NoPattern
  /\ steps = 0

\* ------------------------------------------------------------------- seeds
FuncOp == Operation("func.func", <<>>, <<>>, <<<<EntryBlock>>>>, <<>>)
ForOp(lb, ub, step, inits, types, body) ==
  Operation("scf.for", <<lb, ub, step>> \o inits, types, <<<<body>>>>, <<>>)

\* Constant steps of the seed loops.
StepVals == {1, 2}

\* func(l: index) { a; b; l+b; b+l; s; r = for iv = lb to ub step s
\*                  iter(acc = l) { body }; return r }
\* body 0: yield acc.  body 1: yield iv + acc.  body 2: test.op(iv); yield acc.
\* body 3: yield s (a value defined outside the loop).
ForSeed(a, b, s, lb, ub, body) ==
  LET bodyOps == CASE body = 0 -> (10 :> YieldOp(<<Arg(8, 2)>>))
                   [] body = 1 -> (9 :> AddIOp(Arg(8, 1), Arg(8, 2)))
                                  @@ (10 :> YieldOp(<<Res(9, 1)>>))
                   [] body = 2 -> (9 :> TestOp(1, <<Arg(8, 1)>>, <<>>))
                                  @@ (10 :> YieldOp(<<Arg(8, 2)>>))
                   [] OTHER -> (10 :> YieldOp(<<Res(6, 1)>>))
  IN [ops |-> (0 :> FuncOp) @@ (2 :> ConstantOp("index", a))
              @@ (3 :> ConstantOp("index", b))
              @@ (4 :> AddIOp(Arg(1, 1), Res(3, 1)))
              @@ (5 :> AddIOp(Res(3, 1), Arg(1, 1)))
              @@ (6 :> ConstantOp("index", s))
              @@ (7 :> ForOp(lb, ub, Res(6, 1), <<Arg(1, 1)>>, <<"index">>, 8))
              @@ bodyOps
              @@ (11 :> ReturnOp(<<Res(7, 1)>>)),
      blocks |-> (1 :> Block(<<"index">>, <<2, 3, 4, 5, 6, 7, 11>>))
                 @@ (8 :> Block(<<"index", "index">>,
                                IF body \in {1, 2} THEN <<9, 10>> ELSE <<10>>)),
      next |-> 12]

ForBodies == 0 .. 3

\* Loops with constant bounds, and loops whose upper bound is l + b, b + l,
\* l itself or an unrelated value.
ForSeeds ==
  {ForSeed(a, b, s, Res(2, 1), Res(3, 1), body) :
     a \in Ints, b \in Ints, s \in StepVals, body \in ForBodies}
  \cup
  {ForSeed(0, b, s, Arg(1, 1), ub, body) :
     b \in Ints, s \in StepVals, body \in ForBodies,
     ub \in {Res(4, 1), Res(5, 1), Arg(1, 1), Res(3, 1)}}

NoOps == [o \in {} |-> 0]

\* func(c: i1, d: i1) { t = true; n = c xor t; prevIf; nextIf; return all results }
\* prevIf shape p: 0 = then only, 1 = then and else, 2 = one result.
\* nextIf shape q likewise; with p = 2 the bodies of nextIf use prevIf's result.
\* Every block calls an opaque operation with its own label.
CombineIfsSeed(pc, nc, p, q) ==
  LET use  == IF p = 2 THEN <<Res(4, 1)>> ELSE <<>>
      pT   == IF p = 2 THEN <<"i1">> ELSE <<>>
      qT   == IF q = 2 THEN <<"i1">> ELSE <<>>
      prev == (4 :> IfOpRec(pT, pc, <<10>>, IF p = 0 THEN <<>> ELSE <<11>>))
              @@ (12 :> TestOp(1, <<>>, pT))
              @@ (13 :> YieldOp(IF p = 2 THEN <<Res(12, 1)>> ELSE <<>>))
              @@ (IF p = 0 THEN NoOps
                  ELSE (14 :> TestOp(2, <<>>, pT))
                       @@ (15 :> YieldOp(IF p = 2 THEN <<Res(14, 1)>> ELSE <<>>)))
      next == (5 :> IfOpRec(qT, nc, <<20>>, IF q = 0 THEN <<>> ELSE <<21>>))
              @@ (22 :> TestOp(3, use, qT))
              @@ (23 :> YieldOp(IF q = 2 THEN <<Res(22, 1)>> ELSE <<>>))
              @@ (IF q = 0 THEN NoOps
                  ELSE (24 :> TestOp(4, use, qT))
                       @@ (25 :> YieldOp(IF q = 2 THEN <<Res(24, 1)>> ELSE <<>>)))
  IN [ops |-> (0 :> FuncOp) @@ (2 :> ConstantOp("i1", 1))
              @@ (3 :> XOrIOp(Arg(1, 1), Res(2, 1)))
              @@ prev @@ next
              @@ (6 :> ReturnOp((IF p = 2 THEN <<Res(4, 1)>> ELSE <<>>)
                                \o (IF q = 2 THEN <<Res(5, 1)>> ELSE <<>>))),
      blocks |-> (1 :> Block(<<"i1", "i1">>, <<2, 3, 4, 5, 6>>))
                 @@ (10 :> Block(<<>>, <<12, 13>>))
                 @@ (IF p = 0 THEN NoOps ELSE (11 :> Block(<<>>, <<14, 15>>)))
                 @@ (20 :> Block(<<>>, <<22, 23>>))
                 @@ (IF q = 0 THEN NoOps ELSE (21 :> Block(<<>>, <<24, 25>>))),
      next |-> 30]

CombineIfsSeeds ==
  {CombineIfsSeed(cs[1], cs[2], p, q) :
     cs \in {<<Arg(1, 1), Arg(1, 1)>>, <<Arg(1, 1), Res(3, 1)>>,
             <<Res(3, 1), Arg(1, 1)>>, <<Arg(1, 1), Arg(1, 2)>>},
     p \in 0 .. 2, q \in 0 .. 2}

\* func(c, d, v, w: i1) { r = if c { s = if d { a = test.op; .. } [else ..];
\*                                  yield .. } [else { .. }]; return r }
\* shape 0: no results, no else blocks.
\* shape 1: the outer If yields the inner result; inner else yields v, outer
\*          else yields e.
\* shape 2: the outer If yields v (defined outside), its else yields w.
\* shape 3: two results: the inner result and w; else yields e and v.
\* shape 4: as 0 with an outer else block calling an opaque operation.
\* shape 5: as 0 with an inner else block calling an opaque operation.
NestedIfsSeed(shape, e) ==
  LET v == Arg(1, 3)
      w == Arg(1, 4)
      innerT == IF shape \in {1, 3} THEN <<"i1">> ELSE <<>>
      outerT == CASE shape \in {1, 2} -> <<"i1">> [] shape = 3 -> <<"i1", "i1">>
                  [] OTHER -> <<>>
      outerThenY == CASE shape = 1 -> <<Res(10, 1)>> [] shape = 2 -> <<v>>
                      [] shape = 3 -> <<Res(10, 1), w>> [] OTHER -> <<>>
      outerElseY == CASE shape = 1 -> <<e>> [] shape = 2 -> <<w>>
                      [] shape = 3 -> <<e, v>> [] OTHER -> <<>>
      outerHasElse == shape \in {1, 2, 3, 4}
      innerHasElse == shape \in {1, 3, 5}
  IN [ops |-> (0 :> FuncOp)
              @@ (2 :> IfOpRec(outerT, Arg(1, 1), <<5>>,
                               IF outerHasElse THEN <<6>> ELSE <<>>))
              @@ (10 :> IfOpRec(innerT, Arg(1, 2), <<7>>,
                                IF innerHasElse THEN <<8>> ELSE <<>>))
              @@ (11 :> YieldOp(outerThenY))
              @@ (12 :> TestOp(1, <<>>, innerT))
              @@ (13 :> YieldOp(IF innerT = <<>> THEN <<>> ELSE <<Res(12, 1)>>))
              @@ (IF innerHasElse
                  THEN (14 :> TestOp(2, <<>>, <<>>))
                       @@ (15 :> YieldOp(IF innerT = <<>> THEN <<>> ELSE <<v>>))
                  ELSE NoOps)
              @@ (IF outerHasElse
                  THEN (16 :> TestOp(3, <<>>, <<>>)) @@ (17 :> YieldOp(outerElseY))
                  ELSE NoOps)
              @@ (3 :> ReturnOp([i \in DOMAIN outerT |-> Res(2, i)])),
      blocks |-> (1 :> Block(<<"i1", "i1", "i1", "i1">>, <<2, 3>>))
                 @@ (5 :> Block(<<>>, <<10, 11>>))
                 @@ (7 :> Block(<<>>, <<12, 13>>))
                 @@ (IF innerHasElse
                     THEN (8 :> Block(<<>>, IF shape = 5 THEN <<14, 15>> ELSE <<15>>))
                     ELSE NoOps)
                 @@ (IF outerHasElse
                     THEN (6 :> Block(<<>>, IF shape = 4 THEN <<16, 17>> ELSE <<17>>))
                     ELSE NoOps),
      next |-> 20]

NestedIfsSeeds == {NestedIfsSeed(shape, e) : shape \in 0 .. 5, e \in {Arg(1, 3), Arg(1, 4)}}

\* func(c, v, w: i1) { t = true; f = false; n = c xor t;
\*   r1, r2 = if cond { a = test.op; yield t1, t2 } else { yield e1, e2 };
\*   return ret }
\* A result position yields one of: 1 (v, v), 2 (true, false), 3 (false, true),
\* 4 (v, w), 5 (a, w) with a defined in the then block.
YieldPair(k) ==
  CASE k = 1 -> <<Arg(1, 2), Arg(1, 2)>>
    [] k = 2 -> <<Res(2, 1), Res(3, 1)>>
    [] k = 3 -> <<Res(3, 1), Res(2, 1)>>
    [] k = 4 -> <<Arg(1, 2), Arg(1, 3)>>
    [] OTHER -> <<Res(8, 1), Arg(1, 3)>>

IfYieldSeed(cond, k1, k2, ret) ==
  [ops |-> (0 :> FuncOp) @@ (2 :> ConstantOp("i1", 1)) @@ (3 :> ConstantOp("i1", 0))
           @@ (4 :> XOrIOp(Arg(1, 1), Res(2, 1)))
           @@ (5 :> IfOpRec(<<"i1", "i1">>, cond, <<6>>, <<7>>))
           @@ (8 :> TestOp(1, <<>>, <<"i1">>))
           @@ (9 :> YieldOp(<<YieldPair(k1)[1], YieldPair(k2)[1]>>))
           @@ (10 :> YieldOp(<<YieldPair(k1)[2], YieldPair(k2)[2]>>))
           @@ (11 :> ReturnOp(ret)),
   blocks |-> (1 :> Block(<<"i1", "i1", "i1">>, <<2, 3, 4, 5, 11>>))
              @@ (6 :> Block(<<>>, <<8, 9>>))
              @@ (7 :> Block(<<>>, <<10>>)),
   next |-> 12]

IfYieldSeeds ==
  {IfYieldSeed(cond, k1, k2, ret) :
     cond \in {Arg(1, 1), Res(2, 1), Res(3, 1), Res(4, 1)},
     k1 \in 1 .. 5, k2 \in 1 .. 5,
     ret \in {<<Res(5, 1), Res(5, 2)>>, <<Res(5, 1)>>, <<Res(5, 2)>>, <<>>}}

IfSeeds == CombineIfsSeeds \cup NestedIfsSeeds \cup IfYieldSeeds

IndexSwitchOpRec(arg, cases, types, regions) ==
  Operation("scf.index_switch", <<arg>>, types, regions, cases)

\* func(l: index) { k; ten; twenty; zero;
\*   r = index_switch sel  case cases[1] { test.op; yield 10 }
\*                         case cases[2] { test.op; yield 20 }
\*                         default { test.op; yield 0 };  return r }
\* With nres = 0 the switch has no result and the regions yield nothing.
SwitchSeed(k, sel, cases, nres) ==
  LET y(v) == YieldOp(IF nres = 0 THEN <<>> ELSE <<v>>)
      types == IF nres = 0 THEN <<>> ELSE <<"i64">>
  IN [ops |-> (0 :> FuncOp) @@ (2 :> ConstantOp("index", k))
              @@ (3 :> ConstantOp("i64", 10)) @@ (4 :> ConstantOp("i64", 20))
              @@ (5 :> ConstantOp("i64", 0))
              @@ (6 :> IndexSwitchOpRec(sel, cases, types,
                                        SubSeq(<<<<10>>, <<11>>, <<12>>>>, 1, 1 + Len(cases))))
              @@ (7 :> ReturnOp(IF nres = 0 THEN <<>> ELSE <<Res(6, 1)>>))
              @@ (20 :> TestOp(0, <<>>, <<>>)) @@ (21 :> y(Res(5, 1)))
              @@ (IF Len(cases) >= 1
                  THEN (22 :> TestOp(1, <<>>, <<>>)) @@ (23 :> y(Res(3, 1))) ELSE NoOps)
              @@ (IF Len(cases) >= 2
                  THEN (24 :> TestOp(2, <<>>, <<>>)) @@ (25 :> y(Res(4, 1))) ELSE NoOps),
      blocks |-> (1 :> Block(<<"index">>, <<2, 3, 4, 5, 6, 7>>))
                 @@ (10 :> Block(<<>>, <<20, 21>>))
                 @@ (IF Len(cases) >= 1 THEN (11 :> Block(<<>>, <<22, 23>>)) ELSE NoOps)
                 @@ (IF Len(cases) >= 2 THEN (12 :> Block(<<>>, <<24, 25>>)) ELSE NoOps),
      next |-> 30]

SwitchCases == {<<>>, <<2>>, <<1, 2>>, <<2, 1>>, <<-1, 3>>}

SwitchSeeds ==
  {SwitchSeed(k, Res(2, 1), cases, nres) : k \in Ints, cases \in SwitchCases, nres \in 0 .. 1}
  \cup {SwitchSeed(0, Arg(1, 1), cases, nres) : cases \in SwitchCases, nres \in 0 .. 1}

\* func(a, b: i1) {
\*   r1, r2 = while (x1 = a, x2 = b) { c = test.op(x1, x2); condition(c) c1, c2 }
\*            do (z1, z2) { w = test.op(z1, z2); yield y1, y2 };
\*   return r1, r2 }
\* c1, c2 range over x1, x2, a, b and y1, y2 over a, b, z1, z2, w.
WhileSeed(c1, c2, y1, y2) ==
  [ops |-> (0 :> FuncOp)
           @@ (2 :> WhileOpRec(<<"i1", "i1">>, <<Arg(1, 1), Arg(1, 2)>>, <<10>>, <<11>>))
           @@ (3 :> ReturnOp(<<Res(2, 1), Res(2, 2)>>))
           @@ (12 :> TestOp(1, <<Arg(10, 1), Arg(10, 2)>>, <<"i1">>))
           @@ (13 :> Operation("scf.condition", <<Res(12, 1), c1, c2>>, <<>>, <<>>, <<>>))
           @@ (14 :> TestOp(2, <<Arg(11, 1), Arg(11, 2)>>, <<"i1">>))
           @@ (15 :> YieldOp(<<y1, y2>>)),
   blocks |-> (1 :> Block(<<"i1", "i1">>, <<2, 3>>))
              @@ (10 :> Block(<<"i1", "i1">>, <<12, 13>>))
              @@ (11 :> Block(<<"i1", "i1">>, <<14, 15>>)),
   next |-> 20]

WhileCondArgs == {Arg(10, 1), Arg(10, 2), Arg(1, 1), Arg(1, 2)}

WhileYieldArgs == {Arg(1, 1), Arg(1, 2), Arg(11, 1), Arg(11, 2), Res(14, 1)}

WhileSeeds ==
  {WhileSeed(c1, c2, y1, y2) :
     c1 \in WhileCondArgs, c2 \in WhileCondArgs, y1 \in WhileYieldArgs, y2 \in WhileYieldArgs}

\* func(c: i1) { v = execute_region -> i1 {...}; return v }; with nested the
\* execute_region sits in the then-branch of an scf.if on c.
\* shape 1: one block { x = test; yield x }.
\* shape 2: ^a: x = test; cf.br ^b(x)   ^b(z): w = test(z); yield w.
ExecuteRegionSeed(shape, nested) ==
  LET er == Operation("scf.execute_region", <<>>, <<"i1">>,
                      <<IF shape = 1 THEN <<10>> ELSE <<10, 11>>>>, <<>>)
      body == IF shape = 1
              THEN (12 :> TestOp(1, <<>>, <<"i1">>)) @@ (13 :> YieldOp(<<Res(12, 1)>>))
              ELSE (12 :> TestOp(1, <<>>, <<"i1">>))
                   @@ (13 :> BranchOp(11, <<Res(12, 1)>>))
                   @@ (14 :> TestOp(2, <<Arg(11, 1)>>, <<"i1">>))
                   @@ (15 :> YieldOp(<<Res(14, 1)>>))
      bodyBlocks == IF shape = 1 THEN (10 :> Block(<<>>, <<12, 13>>))
                    ELSE (10 :> Block(<<>>, <<12, 13>>))
                         @@ (11 :> Block(<<"i1">>, <<14, 15>>))
  IN IF nested
     THEN [ops |-> (0 :> FuncOp) @@ (2 :> er) @@ body
                   @@ (3 :> ReturnOp(<<Res(4, 1)>>))
                   @@ (4 :> IfOpRec(<<"i1">>, Arg(1, 1), <<5>>, <<7>>))
                   @@ (6 :> YieldOp(<<Res(2, 1)>>))
                   @@ (8 :> TestOp(3, <<>>, <<"i1">>))
                   @@ (9 :> YieldOp(<<Res(8, 1)>>)),
           blocks |-> (1 :> Block(<<"i1">>, <<4, 3>>)) @@ (5 :> Block(<<>>, <<2, 6>>))
                      @@ (7 :> Block(<<>>, <<8, 9>>)) @@ bodyBlocks,
           next |-> 20]
     ELSE [ops |-> (0 :> FuncOp) @@ (2 :> er) @@ body @@ (3 :> ReturnOp(<<Res(2, 1)>>)),
           blocks |-> (1 :> Block(<<"i1">>, <<2, 3>>)) @@ bodyBlocks,
           next |-> 20]

ExecuteRegionSeeds == {ExecuteRegionSeed(shape, nested) : shape \in 1 .. 2, nested \in BOOLEAN}

\* func(l: index, t: tensor<4>) {
\*   c = tensor.cast t : tensor<?>
\*   r:3 = for iv = l to l step l iter_args(a = i1, b = i2, x = c or t) {
\*     u = test(a); w = test(x) : type of x; yield y1, y2, w }
\*   return r#0 (when used), r#2 }
\* The iter args a and b have type index, x is a tensor.
ForIterSeed(i1, i2, y1, y2, used, cast) ==
  LET T == IF cast THEN "tensor<?>" ELSE "tensor<4>"
  IN [ops |-> (0 :> FuncOp) @@ (2 :> ConstantOp("index", 1))
              @@ (3 :> CastOp("tensor<?>", Arg(1, 2)))
              @@ (4 :> ForOp(Arg(1, 1), Arg(1, 1), Arg(1, 1),
                             <<i1, i2, IF cast THEN Res(3, 1) ELSE Arg(1, 2)>>,
                             <<"index", "index", T>>, 8))
              @@ (5 :> ReturnOp((IF used THEN <<Res(4, 1)>> ELSE <<>>) \o <<Res(4, 3)>>))
              @@ (9 :> TestOp(1, <<Arg(8, 2)>>, <<"index">>))
              @@ (10 :> TestOp(2, <<Arg(8, 4)>>, <<T>>))
              @@ (11 :> YieldOp(<<y1, y2, Res(10, 1)>>)),
      blocks |-> (1 :> Block(<<"index", "tensor<4>">>, <<2, 3, 4, 5>>))
                 @@ (8 :> Block(<<"index", "index", "index", T>>, <<9, 10, 11>>)),
      next |-> 12]

ForIterInits == {Arg(1, 1), Res(2, 1)}
ForIterYields == {Arg(8, 2), Arg(8, 3), Arg(1, 1), Res(2, 1), Res(9, 1)}

ForIterSeeds ==
  {ForIterSeed(i1, i2, y1, y2, used, cast) :
     i1 \in ForIterInits, i2 \in ForIterInits, y1 \in ForIterYields, y2 \in ForIterYields,
     used \in BOOLEAN, cast \in BOOLEAN}

ParallelInsertSliceOp(source, dest) ==
  Operation("tensor.parallel_insert_slice", <<source, dest>>, <<>>, <<>>, <<>>)

DimOp(source, index) == Operation("tensor.dim", <<source, index>>, <<"index">>, <<>>, <<>>)

\* The bounds <<lb, ub, step>> of one dimension of a seed: 1 = static, one
\* iteration; 2 = static, two iterations; 3 = constant operands, two
\* iterations; 4 = the upper bound is the function argument n; 5 = static, no
\* iteration; 6 = constant operands, one iteration.
ForallDim(d) ==
  CASE d = 1 -> <<IntAttr(0), IntAttr(1), IntAttr(1)>>
    [] d = 2 -> <<IntAttr(0), IntAttr(2), IntAttr(1)>>
    [] d = 3 -> <<Res(2, 1), Res(4, 1), Res(3, 1)>>
    [] d = 4 -> <<IntAttr(0), Arg(1, 2), IntAttr(1)>>
    [] d = 5 -> <<IntAttr(0), IntAttr(0), IntAttr(1)>>
    [] OTHER -> <<Res(2, 1), Res(3, 1), Res(3, 1)>>

ForallDims == 1 .. 6

\* func(t: tensor<4>, n: index) {
\*   c0 = 0; c1 = 1; c2 = 2; c = tensor.cast t : tensor<?>
\*   r = forall (i, j) = (lbs) to (ubs) step (steps) shared_outs(o = t or c) {
\*     v = test(i, j, o); in_parallel { parallel_insert_slice v into o (with ins) } }
\*   d = tensor.dim r, c0
\*   return d, r (when used) }
ForallSeed(d1, d2, cast, ins, used, mapping) ==
  LET T == IF cast THEN "tensor<?>" ELSE "tensor<4>"
      lbs == <<ForallDim(d1)[1], ForallDim(d2)[1]>>
      ubs == <<ForallDim(d1)[2], ForallDim(d2)[2]>>
      sts == <<ForallDim(d1)[3], ForallDim(d2)[3]>>
  IN [ops |-> (0 :> FuncOp) @@ (2 :> ConstantOp("index", 0))
              @@ (3 :> ConstantOp("index", 1)) @@ (4 :> ConstantOp("index", 2))
              @@ (5 :> CastOp("tensor<?>", Arg(1, 1)))
              @@ (6 :> ForallOpRec(lbs, ubs, sts,
                                   <<IF cast THEN Res(5, 1) ELSE Arg(1, 1)>>, <<T>>,
                                   mapping, <<<<10>>>>))
              @@ (7 :> DimOp(Res(6, 1), Res(2, 1)))
              @@ (8 :> ReturnOp(<<Res(7, 1)>> \o (IF used THEN <<Res(6, 1)>> ELSE <<>>)))
              @@ (12 :> TestOp(1, <<Arg(10, 1), Arg(10, 2), Arg(10, 3)>>, <<"tensor<4>">>))
              @@ (13 :> InParallelOp(11))
              @@ (IF ins THEN (14 :> ParallelInsertSliceOp(Res(12, 1), Arg(10, 3)))
                  ELSE NoOps),
      blocks |-> (1 :> Block(<<"tensor<4>", "index">>, <<2, 3, 4, 5, 6, 7, 8>>))
                 @@ (10 :> Block(<<"index", "index", T>>, <<12, 13>>))
                 @@ (11 :> Block(<<>>, IF ins THEN <<14>> ELSE <<>>)),
      next |-> 20]

ForallSeeds ==
  {ForallSeed(d1, d2, cast, ins, used, mapping) :
     d1 \in ForallDims, d2 \in ForallDims, cast \in BOOLEAN, ins \in BOOLEAN,
     used \in BOOLEAN, mapping \in {<<>>, <<1, 2>>}}

\* The bounds <<lb, ub, step>> of one dimension of a parallel seed, all
\* operands: 1 = one iteration, 2 = two iterations, 3 = no iteration,
\* 4 = the upper bound is the function argument n.
ParallelDim(d) ==
  CASE d = 1 -> <<Res(2, 1), Res(3, 1), Res(3, 1)>>
    [] d = 2 -> <<Res(2, 1), Res(4, 1), Res(3, 1)>>
    [] d = 3 -> <<Res(2, 1), Res(2, 1), Res(3, 1)>>
    [] OTHER -> <<Res(2, 1), Arg(1, 1), Res(3, 1)>>

ParallelDims == 1 .. 4

\* func(n: index) {
\*   c0 = 0; c1 = 1; c2 = 2; z = test : i64
\*   r = parallel (i, j) = (lbs) to (ubs) step (steps) init (z) {
\*     v = test(i, j) : i64
\*     reduce(v) { ^(a, b): s = test(a, b); reduce.return s } }
\*   return r }
ParallelReduceSeed(d1, d2) ==
  [ops |-> (0 :> FuncOp) @@ (2 :> ConstantOp("index", 0))
           @@ (3 :> ConstantOp("index", 1)) @@ (4 :> ConstantOp("index", 2))
           @@ (5 :> TestOp(1, <<>>, <<"i64">>))
           @@ (6 :> ParallelOpRec(<<ParallelDim(d1)[1], ParallelDim(d2)[1]>>,
                                  <<ParallelDim(d1)[2], ParallelDim(d2)[2]>>,
                                  <<ParallelDim(d1)[3], ParallelDim(d2)[3]>>,
                                  <<Res(5, 1)>>, <<"i64">>, <<<<10>>>>))
           @@ (7 :> ReturnOp(<<Res(6, 1)>>))
           @@ (12 :> TestOp(2, <<Arg(10, 1), Arg(10, 2)>>, <<"i64">>))
           @@ (13 :> ReduceOp(<<Res(12, 1)>>, <<<<11>>>>))
           @@ (14 :> TestOp(3, <<Arg(11, 1), Arg(11, 2)>>, <<"i64">>))
           @@ (15 :> Operation("scf.reduce.return", <<Res(14, 1)>>, <<>>, <<>>, <<>>)),
   blocks |-> (1 :> Block(<<"index">>, <<2, 3, 4, 5, 6, 7>>))
              @@ (10 :> Block(<<"index", "index">>, <<12, 13>>))
              @@ (11 :> Block(<<"i64", "i64">>, <<14, 15>>)),
   next |-> 20]

\* func(n: index) {
\*   c0 = 0; c1 = 1; c2 = 2
\*   parallel (i) = (lb) to (ub) step (st) {
\*     parallel (j) = (lb2) to (ub2) step (st2) { test(i, j); reduce }
\*     test (with extra); reduce }
\*   return }
\* With dep the inner upper bound is the outer induction variable.
ParallelNestedSeed(d1, d2, dep, extra) ==
  [ops |-> (0 :> FuncOp) @@ (2 :> ConstantOp("index", 0))
           @@ (3 :> ConstantOp("index", 1)) @@ (4 :> ConstantOp("index", 2))
           @@ (6 :> ParallelOpRec(<<ParallelDim(d1)[1]>>, <<ParallelDim(d1)[2]>>,
                                  <<ParallelDim(d1)[3]>>, <<>>, <<>>, <<<<10>>>>))
           @@ (7 :> ReturnOp(<<>>))
           @@ (12 :> ParallelOpRec(<<ParallelDim(d2)[1]>>,
                                   <<IF dep THEN Arg(10, 1) ELSE ParallelDim(d2)[2]>>,
                                   <<ParallelDim(d2)[3]>>, <<>>, <<>>, <<<<11>>>>))
           @@ (13 :> ReduceOp(<<>>, <<>>))
           @@ (14 :> TestOp(1, <<Arg(10, 1), Arg(11, 1)>>, <<>>))
           @@ (15 :> ReduceOp(<<>>, <<>>))
           @@ (IF extra THEN (16 :> TestOp(2, <<>>, <<>>)) ELSE NoOps),
   blocks |-> (1 :> Block(<<"index">>, <<2, 3, 4, 6, 7>>))
              @@ (10 :> Block(<<"index">>, IF extra THEN <<12, 16, 13>> ELSE <<12, 13>>))
              @@ (11 :> Block(<<"index">>, <<14, 15>>)),
   next |-> 20]

ParallelSeeds ==
  {ParallelReduceSeed(d1, d2) : d1 \in ParallelDims, d2 \in ParallelDims}
  \cup {ParallelNestedSeed(d1, d2, dep, extra) :
          d1 \in ParallelDims, d2 \in ParallelDims, dep \in BOOLEAN, extra \in BOOLEAN}

\* func(a: index, b: i1) {
\*   w:2 = while (p = a, q = b) {
\*     z = test(bu) : index; c = cmpi slt, z, a; condition(c) ca[1], ca[2]
\*   } do { ^(x1, x2):
\*     c2 = cmpi pred, x1, a; u = test(c2) \o au; yield a, y2 }
\*   return ret }
\* The types of x1, x2 and of the results are those of ca[1] and ca[2].
WhileCmpSeedType(v) == IF v \in {Arg(10, 2), Res(13, 1), Arg(1, 2)} THEN "i1" ELSE "index"

WhileCmpSeed(ca, pred, bu, au, y2, ret) ==
  LET T == <<WhileCmpSeedType(ca[1]), WhileCmpSeedType(ca[2])>>
  IN [ops |-> (0 :> FuncOp)
              @@ (2 :> WhileOpRec(T, <<Arg(1, 1), Arg(1, 2)>>, <<10>>, <<11>>))
              @@ (3 :> ReturnOp(ret))
              @@ (12 :> TestOp(1, bu, <<"index">>))
              @@ (13 :> CmpIOp(2, Res(12, 1), Arg(1, 1)))
              @@ (14 :> ConditionOp(Res(13, 1), ca))
              @@ (15 :> CmpIOp(pred, Arg(11, 1), Arg(1, 1)))
              @@ (16 :> TestOp(2, <<Res(15, 1)>> \o au, <<"i1">>))
              @@ (17 :> YieldOp(<<Arg(1, 1), y2>>)),
      blocks |-> (1 :> Block(<<"index", "i1">>, <<2, 3>>))
                 @@ (10 :> Block(<<"index", "i1">>, <<12, 13, 14>>))
                 @@ (11 :> Block(T, <<15, 16, 17>>)),
      next |-> 20]

WhileCmpSeeds ==
  {WhileCmpSeed(ca, pred, bu, au, y2, ret) :
     ca \in {<<Arg(10, 1), Arg(10, 2)>>, <<Arg(10, 2), Arg(10, 1)>>,
             <<Res(12, 1), Res(13, 1)>>, <<Res(12, 1), Res(12, 1)>>,
             <<Arg(1, 1), Res(13, 1)>>, <<Arg(10, 1), Arg(10, 1)>>,
             <<Res(12, 1), Arg(10, 2)>>, <<Res(13, 1), Res(13, 1)>>},
     pred \in {0, 2, 5},
     bu \in {<<>>, <<Arg(10, 1), Arg(10, 2)>>},
     au \in {<<>>, <<Arg(11, 1)>>, <<Arg(11, 1), Arg(11, 2)>>},
     y2 \in {Arg(1, 2), Res(16, 1)},
     ret \in {<<>>, <<Res(2, 1), Res(2, 2)>>}}

\* ----------------------------------------------------------------- actions
ApplySimplifyTrivialLoops ==
  \E o \in OpsOfKind(ir, "scf.for") :
    Apply("SimplifyTrivialLoops", o, SimplifyTrivialLoops(ir, o))

ApplyPromoteIfSingleIteration ==
  \E o \in OpsOfKind(ir, "scf.for") :
    Apply("promoteIfSingleIteration", o, promoteIfSingleIteration(ir, o))

InitFor == Start(ForSeeds)

NextFor ==
  \/ ApplySimplifyTrivialLoops
  \/ ApplyPromoteIfSingleIteration

SpecFor == InitFor /\ [][NextFor]_vars

ApplyIfOpFold ==
  \E o \in OpsOfKind(ir, "scf.if") : Apply("IfOp::fold", o, IfOp_fold(ir, o))

ApplyCombineIfs ==
  \E o \in OpsOfKind(ir, "scf.if") : Apply("CombineIfs", o, CombineIfs(ir, o))

ApplyCombineNestedIfs ==
  \E o \in OpsOfKind(ir, "scf.if") : Apply("CombineNestedIfs", o, CombineNestedIfs(ir, o))

ApplyConvertTrivialIfToSelect ==
  \E o \in OpsOfKind(ir, "scf.if") :
    Apply("ConvertTrivialIfToSelect", o, ConvertTrivialIfToSelect(ir, o))

ApplyRemoveEmptyElseBranch ==
  \E o \in OpsOfKind(ir, "scf.if") :
    Apply("RemoveEmptyElseBranch", o, RemoveEmptyElseBranch(ir, o))

ApplyRemoveStaticCondition ==
  \E o \in OpsOfKind(ir, "scf.if") :
    Apply("RemoveStaticCondition", o, RemoveStaticCondition(ir, o))

ApplyRemoveUnusedResults ==
  \E o \in OpsOfKind(ir, "scf.if") :
    Apply("RemoveUnusedResults", o, RemoveUnusedResults(ir, o))

ApplyReplaceIfYieldWithConditionOrValue ==
  \E o \in OpsOfKind(ir, "scf.if") :
    Apply("ReplaceIfYieldWithConditionOrValue", o, ReplaceIfYieldWithConditionOrValue(ir, o))

InitIf == Start(IfSeeds)

NextIf ==
  \/ ApplyIfOpFold
  \/ ApplyCombineIfs
  \/ ApplyCombineNestedIfs
  \/ ApplyConvertTrivialIfToSelect
  \/ ApplyRemoveEmptyElseBranch
  \/ ApplyRemoveStaticCondition
  \/ ApplyRemoveUnusedResults
  \/ ApplyReplaceIfYieldWithConditionOrValue

SpecIf == InitIf /\ [][NextIf]_vars

ApplyFoldConstantCase ==
  \E o \in OpsOfKind(ir, "scf.index_switch") :
    Apply("FoldConstantCase", o, FoldConstantCase(ir, o))

InitSwitch == Start(SwitchSeeds)

NextSwitch == ApplyFoldConstantCase

SpecSwitch == InitSwitch /\ [][NextSwitch]_vars

ApplyRemoveLoopInvariantArgsFromBeforeBlock ==
  \E o \in OpsOfKind(ir, "scf.while") :
    Apply("RemoveLoopInvariantArgsFromBeforeBlock", o,
          RemoveLoopInvariantArgsFromBeforeBlock(ir, o))

InitWhile == Start(WhileSeeds)

NextWhile ==
  \/ ApplyRemoveLoopInvariantArgsFromBeforeBlock

SpecWhile == InitWhile /\ [][NextWhile]_vars

ApplySingleBlockExecuteInliner ==
  \E o \in OpsOfKind(ir, "scf.execute_region") :
    Apply("SingleBlockExecuteInliner", o, SingleBlockExecuteInliner(ir, o))

ApplyMultiBlockExecuteInliner ==
  \E o \in OpsOfKind(ir, "scf.execute_region") :
    Apply("MultiBlockExecuteInliner", o, MultiBlockExecuteInliner(ir, o))

ApplyForOpIterArgsFolder ==
  \E o \in OpsOfKind(ir, "scf.for") :
    Apply("ForOpIterArgsFolder", o, ForOpIterArgsFolder(ir, o))

ApplyForOpTensorCastFolder ==
  \E o \in OpsOfKind(ir, "scf.for") :
    Apply("ForOpTensorCastFolder", o, ForOpTensorCastFolder(ir, o))

ApplyDimOfForallOp ==
  \E o \in OpsOfKind(ir, "tensor.dim") : Apply("DimOfForallOp", o, DimOfForallOp(ir, o))

ApplyFoldTensorCastOfOutputIntoForallOp ==
  \E o \in OpsOfKind(ir, "scf.forall") :
    Apply("FoldTensorCastOfOutputIntoForallOp", o, FoldTensorCastOfOutputIntoForallOp(ir, o))

ApplyForallOpControlOperandsFolder ==
  \E o \in OpsOfKind(ir, "scf.forall") :
    Apply("ForallOpControlOperandsFolder", o, ForallOpControlOperandsFolder(ir, o))

ApplyForallOpIterArgsFolder ==
  \E o \in OpsOfKind(ir, "scf.forall") :
    Apply("ForallOpIterArgsFolder", o, ForallOpIterArgsFolder(ir, o))

ApplyForallOpSingleOrZeroIterationDimsFolder ==
  \E o \in OpsOfKind(ir, "scf.forall"), assertions \in BOOLEAN :
    Apply("ForallOpSingleOrZeroIterationDimsFolder", o,
          ForallOpSingleOrZeroIterationDimsFolder(ir, o, assertions))

ApplyForallOpReplaceConstantInductionVar ==
  \E o \in OpsOfKind(ir, "scf.forall") :
    Apply("ForallOpReplaceConstantInductionVar", o,
          ForallOpReplaceConstantInductionVar(ir, o))

ApplyParallelOpSingleOrZeroIterationDimsFolder ==
  \E o \in OpsOfKind(ir, "scf.parallel") :
    Apply("ParallelOpSingleOrZeroIterationDimsFolder", o,
          ParallelOpSingleOrZeroIterationDimsFolder(ir, o))

ApplyMergeNestedParallelLoops ==
  \E o \in OpsOfKind(ir, "scf.parallel") :
    Apply("MergeNestedParallelLoops", o, MergeNestedParallelLoops(ir, o))

ApplyRemoveLoopInvariantValueYielded ==
  \E o \in OpsOfKind(ir, "scf.while") :
    Apply("RemoveLoopInvariantValueYielded", o, RemoveLoopInvariantValueYielded(ir, o))

ApplyWhileConditionTruth ==
  \E o \in OpsOfKind(ir, "scf.while") :
    Apply("WhileConditionTruth", o, WhileConditionTruth(ir, o))

ApplyWhileCmpCond ==
  \E o \in OpsOfKind(ir, "scf.while") : Apply("WhileCmpCond", o, WhileCmpCond(ir, o))

ApplyWhileUnusedResult ==
  \E o \in OpsOfKind(ir, "scf.while") :
    Apply("WhileUnusedResult", o, WhileUnusedResult(ir, o))

ApplyWhileRemoveDuplicatedResults ==
  \E o \in OpsOfKind(ir, "scf.while") :
    Apply("WhileRemoveDuplicatedResults", o, WhileRemoveDuplicatedResults(ir, o))

ApplyWhileRemoveUnusedArgs ==
  \E o \in OpsOfKind(ir, "scf.while") :
    Apply("WhileRemoveUnusedArgs", o, WhileRemoveUnusedArgs(ir, o))

ApplyWhileOpAlignBeforeArgs ==
  \E o \in OpsOfKind(ir, "scf.while") :
    Apply("WhileOpAlignBeforeArgs", o, WhileOpAlignBeforeArgs(ir, o))

\* IfOp::fold and every registered canonicalization pattern, from every seed.
Seeds ==
  ExecuteRegionSeeds \cup ForSeeds \cup ForIterSeeds \cup ForallSeeds \cup IfSeeds
  \cup ParallelSeeds \cup WhileSeeds \cup WhileCmpSeeds \cup SwitchSeeds

Init == Start(Seeds)

Next ==
  \/ ApplySingleBlockExecuteInliner
  \/ ApplyMultiBlockExecuteInliner
  \/ ApplyForOpIterArgsFolder
  \/ ApplySimplifyTrivialLoops
  \/ ApplyForOpTensorCastFolder
  \/ ApplyDimOfForallOp
  \/ ApplyFoldTensorCastOfOutputIntoForallOp
  \/ ApplyForallOpControlOperandsFolder
  \/ ApplyForallOpIterArgsFolder
  \/ ApplyForallOpSingleOrZeroIterationDimsFolder
  \/ ApplyForallOpReplaceConstantInductionVar
  \/ ApplyIfOpFold
  \/ ApplyCombineIfs
  \/ ApplyCombineNestedIfs
  \/ ApplyConvertTrivialIfToSelect
  \/ ApplyRemoveEmptyElseBranch
  \/ ApplyRemoveStaticCondition
  \/ ApplyRemoveUnusedResults
  \/ ApplyReplaceIfYieldWithConditionOrValue
  \/ ApplyParallelOpSingleOrZeroIterationDimsFolder
  \/ ApplyMergeNestedParallelLoops
  \/ ApplyRemoveLoopInvariantArgsFromBeforeBlock
  \/ ApplyRemoveLoopInvariantValueYielded
  \/ ApplyWhileConditionTruth
  \/ ApplyWhileCmpCond
  \/ ApplyWhileUnusedResult
  \/ ApplyWhileRemoveDuplicatedResults
  \/ ApplyWhileRemoveUnusedArgs
  \/ ApplyWhileOpAlignBeforeArgs
  \/ ApplyFoldConstantCase

Spec == Init /\ [][Next]_vars

\* --------------------------------------------------------------- builders
\* The body callbacks of the build functions are the caller's code.  A
\* callback, when one is given, is one that ends the block it is handed with
\* the construct's terminator.

\* func(c: i1, l: index, t: tensor<4>) { return }
BuildSeed ==
  [ops |-> (0 :> FuncOp) @@ (2 :> ReturnOp(<<>>)),
   blocks |-> (EntryBlock :> Block(<<"i1", "index", "tensor<4>">>, <<2>>)),
   next |-> 10]

\* The operation builds insert in front of.
BuildPoint == getTerminator(BuildSeed, EntryBlock)

\* ForOp::build.  The op is G.next and its body block G.next + 1; the
\* callback yields the region iter args.
ForOp_buildWith(G, before, lb, ub, step, initArgs, bodyBuilder) ==
  LET types == [i \in DOMAIN initArgs |-> getType(G, initArgs[i])]
      A == createBefore(G, before,
                        Operation("scf.for", <<lb, ub, step>> \o initArgs, types,
                                  <<<<>>>>, <<>>))
      B == createBlock(A, G.next, 1, <<getType(G, lb)>> \o types)
      bodyBlock == G.next + 1
  IN IF initArgs = <<>> /\ ~bodyBuilder THEN createAtEnd(B, bodyBlock, YieldOp(<<>>))
     ELSE IF bodyBuilder
     THEN createAtEnd(B, bodyBlock, YieldOp(Tail(getArguments(B, bodyBlock))))
     ELSE B

\* IfOp::build(resultTypes, cond, addThenBlock, addElseBlock); the overload
\* without the two flags passes FALSE for both.
IfOp_build(G, before, resultTypes, cond, addThenBlock, addElseBlock) ==
  LET A == createBefore(G, before, IfOpRec(resultTypes, cond, <<>>, <<>>))
      B == IF addThenBlock THEN createBlock(A, G.next, 1, <<>>) ELSE A
  IN IF addElseBlock THEN createBlock(B, G.next, 2, <<>>) ELSE B

\* IfOp::build(resultTypes, cond, withElseRegion); the overload without
\* result types passes none.
IfOp_buildWithElseRegion(G, before, resultTypes, cond, withElseRegion) ==
  LET ifOp == G.next
      A == createBlock(createBefore(G, before, IfOpRec(resultTypes, cond, <<>>, <<>>)),
                       ifOp, 1, <<>>)
      B == IF resultTypes = <<>> THEN createAtEnd(A, ifOp + 1, YieldOp(<<>>)) ELSE A
      C == IF withElseRegion THEN createBlock(B, ifOp, 2, <<>>) ELSE B
  IN IF withElseRegion /\ resultTypes = <<>>
     THEN createAtEnd(C, C.next - 1, YieldOp(<<>>))
     ELSE C

\* IfOp::inferReturnTypes: the operand types of the yield that ends the
\* then block; none when there is no such yield.
IfOp_inferReturnTypes(G, ifOp) ==
  IF G.ops[ifOp].regions[1] = <<>> \/ G.blocks[G.ops[ifOp].regions[1][1]].ops = <<>>
  THEN <<>>
  ELSE LET last_ == getTerminator(G, G.ops[ifOp].regions[1][1])
       IN IF G.ops[last_].kind = "scf.yield" THEN typesOf(G, G.ops[last_].operands)
          ELSE <<>>

\* IfOp::build(cond, thenBuilder, elseBuilder): thenBuilder is present; each
\* callback yields the values `yields`.
IfOp_buildWithBuilders(G, before, cond, elseBuilder, yields) ==
  LET ifOp == G.next
      A == createBlock(createBefore(G, before, IfOpRec(<<>>, cond, <<>>, <<>>)), ifOp, 1, <<>>)
      B == createAtEnd(A, ifOp + 1, YieldOp(yields))
      C == IF elseBuilder
           THEN createAtEnd(createBlock(B, ifOp, 2, <<>>), B.next, YieldOp(yields))
           ELSE B
  IN [C EXCEPT !.ops[ifOp].types = IfOp_inferReturnTypes(C, ifOp)]

\* WhileOp::build.  The op is G.next, its before block G.next + 1 and its
\* after block the block created next; the before callback ends its block
\* with scf.condition(cond) on the block arguments, the after callback with a
\* yield of the block arguments.
WhileOp_buildWith(G, before, resultTypes, inits, cond, beforeBuilder, afterBuilder) ==
  LET whileOp == G.next
      A == createBlock(createBefore(G, before, WhileOpRec(resultTypes, inits, <<>>, <<>>)),
                       whileOp, 1, typesOf(G, inits))
      B == IF beforeBuilder
           THEN createAtEnd(A, whileOp + 1, ConditionOp(cond, getArguments(A, whileOp + 1)))
           ELSE A
      C == createBlock(B, whileOp, 2, resultTypes)
  IN IF afterBuilder THEN createAtEnd(C, B.next, YieldOp(getArguments(C, B.next))) ELSE C

\* ParallelOp::build; the callback ends the block with an scf.reduce of the
\* init values, one two-argument block per value (ReduceOp::build).
ParallelOp_build(G, before, lbs, ubs, steps_, initVals, bodyBuilderFn) ==
  LET op == G.next
      A == ParallelOp_buildShell(G, before, lbs, ubs, steps_, initVals)
      reduceOp == A.next
      blocks == [i \in DOMAIN initVals |-> reduceOp + i]
      B == [ops |-> (reduceOp :> ReduceOp(initVals, [i \in DOMAIN initVals |-> <<blocks[i]>>]))
                    @@ A.ops,
            blocks |-> [b \in {blocks[i] : i \in DOMAIN initVals} |->
                          Block(<<getType(G, initVals[b - reduceOp]),
                                  getType(G, initVals[b - reduceOp])>>, <<>>)]
                       @@ [A.blocks EXCEPT ![op + 1].ops = Append(@, reduceOp)],
            next |-> reduceOp + Len(initVals) + 1]
  IN ParallelOp_ensureTerminator(IF bodyBuilderFn THEN B ELSE A, op)

\* ForallOp::build followed by its callback, which ends the block with an
\* empty in_parallel.
ForallOp_buildWith(G, before, lbs, ubs, steps_, outputs, bodyBuilderFn) ==
  LET A == ForallOp_build(G, before, lbs, ubs, steps_, outputs, <<>>, bodyBuilderFn)
  IN IF ~bodyBuilderFn THEN A
     ELSE [createAtEnd(A, G.next + 1, InParallelOp(A.next + 1))
             EXCEPT !.blocks = ((A.next + 1) :> Block(<<>>, <<>>)) @@ @,
                    !.next = A.next + 2]

\* The init values, result types and bounds the builds are called with.
BuildInits == {<<>>, <<Arg(EntryBlock, 2)>>, <<Arg(EntryBlock, 2), Arg(EntryBlock, 3)>>}
BuildTypes == {<<>>, <<"index">>}
BuildIndex == Arg(EntryBlock, 2)
BuildCond == Arg(EntryBlock, 1)

Built(name, G) ==
  /\ steps < MaxBuilds
  /\ Apply(name, ir.next, Success(G))

BuildFor ==
  \E initArgs \in BuildInits, bodyBuilder \in BOOLEAN :
    Built("ForOp::build",
          ForOp_buildWith(ir, BuildPoint, BuildIndex, BuildIndex, BuildIndex, initArgs,
                          bodyBuilder))

BuildIf ==
  \E resultTypes \in BuildTypes, addThenBlock, addElseBlock \in BOOLEAN :
    /\ addElseBlock => addThenBlock
    /\ Built("IfOp::build",
             IfOp_build(ir, BuildPoint, resultTypes, BuildCond, addThenBlock, addElseBlock))

BuildIfWithElseRegion ==
  \E resultTypes \in BuildTypes, withElseRegion \in BOOLEAN :
    Built("IfOp::build(withElseRegion)",
          IfOp_buildWithElseRegion(ir, BuildPoint, resultTypes, BuildCond, withElseRegion))

BuildIfWithBuilders ==
  \E elseBuilder \in BOOLEAN, yields \in {<<>>, <<BuildIndex>>} :
    Built("IfOp::build(thenBuilder, elseBuilder)",
          IfOp_buildWithBuilders(ir, BuildPoint, BuildCond, elseBuilder, yields))

BuildWhile ==
  \E inits \in BuildInits, beforeBuilder, afterBuilder \in BOOLEAN :
    Built("WhileOp::build",
          WhileOp_buildWith(ir, BuildPoint, typesOf(ir, inits), inits, BuildCond,
                            beforeBuilder, afterBuilder))

BuildParallel ==
  \E initVals \in BuildInits, bodyBuilderFn \in BOOLEAN :
    Built("ParallelOp::build",
          ParallelOp_build(ir, BuildPoint, <<BuildIndex>>, <<BuildIndex>>, <<BuildIndex>>,
                           initVals, bodyBuilderFn))

BuildForall ==
  \E outputs \in {<<>>, <<Arg(EntryBlock, 3)>>}, bodyBuilderFn \in BOOLEAN :
    Built("ForallOp::build",
          ForallOp_buildWith(ir, BuildPoint, <<IntAttr(0)>>, <<BuildIndex>>, <<IntAttr(1)>>,
                             outputs, bodyBuilderFn))

InitBuild == Start({BuildSeed})

NextBuild ==
  \/ BuildFor
  \/ BuildIf
  \/ BuildIfWithElseRegion
  \/ BuildIfWithBuilders
  \/ BuildWhile
  \/ BuildParallel
  \/ BuildForall

SpecBuild == InitBuild /\ [][NextBuild]_vars

\* -------------------------------------------------------------- loop nests
\* func(a: index, b: index, c: index, t: tensor<4>) { return }
LoopNestSeed ==
  [ops |-> (0 :> FuncOp) @@ (2 :> ReturnOp(<<>>)),
   blocks |-> (EntryBlock :> Block(<<"index", "index", "index", "tensor<4>">>, <<2>>)),
   next |-> 10]

\* Create an operation at position pos of block dest; its id is G.next.
createAt(G, dest, pos, rec) ==
  [ops |-> (G.next :> rec) @@ G.ops,
   blocks |-> [G.blocks EXCEPT ![dest].ops = InsertSeqAt(@, pos, <<G.next>>)],
   next |-> G.next + 1]

\* The body callbacks of buildLoopNest: "null" (none given), "forward" (it
\* creates nothing and returns the iter args it is handed) and "compute" (it
\* creates one opaque operation on the induction variables and the iter args
\* at the insertion point and returns its results).  A call returns the
\* graph and the values.
LoopNestCallbacks == {"null", "forward", "compute"}

bodyBuilderCall(G, bodyBuilder, dest, pos, ivs, args) ==
  IF bodyBuilder = "forward" THEN [g |-> G, results |-> args]
  ELSE [g |-> createAt(G, dest, pos, TestOp(1, ivs \o args, typesOf(G, args))),
        results |-> [i \in DOMAIN args |-> Res(G.next, i)]]

\* buildLoopNest with no bounds: the callback, if any, runs at the insertion
\* point (position pos of block dest) on no induction variables and the
\* iterArgs; its values are the results.
buildLoopNestEmptyDroppingResults(G, dest, pos, iterArgs, bodyBuilder) ==
  IF bodyBuilder = "null"
  THEN [g |-> G, loops |-> <<>>, results |-> <<>>, calls |-> <<>>, ub |-> iterArgs # <<>>]
  ELSE LET c == bodyBuilderCall(G, bodyBuilder, dest, pos, <<>>, iterArgs)
       IN [g |-> c.g, loops |-> <<>>, results |-> <<>>,
           calls |-> <<[ivs |-> <<>>, args |-> iterArgs, results |-> c.results]>>,
           ub |-> FALSE]

buildLoopNestEmpty(G, dest, pos, iterArgs, bodyBuilder) ==
  IF bodyBuilder = "null"
  THEN [g |-> G, loops |-> <<>>, results |-> <<>>, calls |-> <<>>, ub |-> iterArgs # <<>>]
  ELSE LET c == bodyBuilderCall(G, bodyBuilder, dest, pos, <<>>, iterArgs)
       IN [g |-> c.g, loops |-> <<>>, results |-> c.results,
           calls |-> <<[ivs |-> <<>>, args |-> iterArgs, results |-> c.results]>>,
           ub |-> FALSE]

\* The first loop of buildLoopNest: loop i is created at the insertion point
\* with the current iter args through ForOp::build, whose callback records
\* the induction variable and the region iter args; the insertion point
\* moves to the start of the new body.
RECURSIVE LoopNestLoops(_, _, _, _, _, _, _, _, _)
LoopNestLoops(G, dest, pos, lbs, ubs, steps_, currentIterArgs, loops, ivs) ==
  IF lbs = <<>> THEN [g |-> G, loops |-> loops, ivs |-> ivs, args |-> currentIterArgs]
  ELSE
    LET loop == G.next
        body == G.next + 1
        types == typesOf(G, currentIterArgs)
        A == createBlock(createAt(G, dest, pos,
                                  Operation("scf.for",
                                            <<Head(lbs), Head(ubs), Head(steps_)>>
                                              \o currentIterArgs,
                                            types, <<<<>>>>, <<>>)),
                         loop, 1, <<getType(G, Head(lbs))>> \o types)
    IN LoopNestLoops(A, body, 1, Tail(lbs), Tail(ubs), Tail(steps_),
                     Tail(getArguments(A, body)), Append(loops, loop),
                     Append(ivs, Arg(body, 1)))

\* The second loop of buildLoopNest, with every loop yielding its own iter
\* args.
RECURSIVE LoopNestYieldsOwnArgs(_, _, _)
LoopNestYieldsOwnArgs(G, loops, i) ==
  IF i > Len(loops) - 1 THEN G
  ELSE LoopNestYieldsOwnArgs(createAtEnd(G, getBody(G, loops[i]),
                                         YieldOp(Tail(getArguments(G, getBody(G, loops[i]))))),
                             loops, i + 1)

\* The second loop of buildLoopNest: every loop but the innermost yields the
\* results of the loop nested in it.
RECURSIVE LoopNestYields(_, _, _)
LoopNestYields(G, loops, i) ==
  IF i > Len(loops) - 1 THEN G
  ELSE LoopNestYields(createAtEnd(G, getBody(G, loops[i]),
                                  YieldOp(getResults(G, loops[i + 1]))),
                      loops, i + 1)

\* buildLoopNest(lbs, ubs, steps, iterArgs, bodyBuilder) at the insertion
\* point (position pos of block dest).  The result holds the graph, the
\* loops, the returned values and the calls made to the callback; ub marks a
\* call that breaks the assertion on the number of values.
buildLoopNest(G, dest, pos, lbs, ubs, steps_, iterArgs, bodyBuilder) ==
  IF lbs = <<>> THEN buildLoopNestEmpty(G, dest, pos, iterArgs, bodyBuilder)
  ELSE
    With(LoopNestLoops(G, dest, pos, lbs, ubs, steps_, iterArgs, <<>>, <<>>), LAMBDA s :
    With(LoopNestYields(s.g, s.loops, 1), LAMBDA A :
      LET innermost == s.loops[Len(s.loops)]
          body == getBody(A, innermost)
      IN IF bodyBuilder = "null"
         THEN [g |-> createAtEnd(A, body, YieldOp(<<>>)), loops |-> s.loops,
               results |-> getResults(A, s.loops[1]), calls |-> <<>>,
               ub |-> iterArgs # <<>>]
         ELSE LET c == bodyBuilderCall(A, bodyBuilder, body, 1, s.ivs,
                                       Tail(getArguments(A, body)))
              IN [g |-> createAtEnd(c.g, body, YieldOp(c.results)), loops |-> s.loops,
                  results |-> getResults(A, s.loops[1]),
                  calls |-> <<[ivs |-> s.ivs, args |-> Tail(getArguments(A, body)),
                               results |-> c.results]>>,
                  ub |-> FALSE]))

\* buildLoopNest(lbs, ubs, steps, bodyBuilder): the overload without iter
\* args wraps the callback, if any, in one that returns no values.
buildLoopNestNoIterArgs(G, dest, pos, lbs, ubs, steps_, bodyBuilder) ==
  buildLoopNest(G, dest, pos, lbs, ubs, steps_, <<>>,
                IF bodyBuilder = "null" THEN "forward" ELSE bodyBuilder)

\* The bound triples and the iter args buildLoopNest is called with.
LoopNestLbs == <<Arg(EntryBlock, 1), Arg(EntryBlock, 2), Arg(EntryBlock, 3)>>
LoopNestUbs == <<Arg(EntryBlock, 2), Arg(EntryBlock, 3), Arg(EntryBlock, 1)>>
LoopNestSteps == <<Arg(EntryBlock, 3), Arg(EntryBlock, 1), Arg(EntryBlock, 2)>>
LoopNestIterArgs ==
  {<<>>, <<Arg(EntryBlock, 1)>>, <<Arg(EntryBlock, 4), Arg(EntryBlock, 2)>>}
MaxNest == Len(LoopNestLbs)

\* One call of buildLoopNest in front of the return of the function.
Called(name, n, iterArgs, bodyBuilder, r) ==
  /\ steps < MaxBuilds
  /\ ~last.ub
  /\ ir' = r.g
  /\ pre' = ir
  /\ last' = [pattern |-> name, op |-> ir.next, ok |-> ~r.ub, ub |-> r.ub, n |-> n,
              iterArgs |-> iterArgs, bodyBuilder |-> bodyBuilder, loops |-> r.loops,
              results |-> r.results, calls |-> r.calls]
  /\ steps' = steps + 1

CallBuildLoopNest ==
  \E n \in 0 .. MaxNest, iterArgs \in LoopNestIterArgs, bodyBuilder \in LoopNestCallbacks :
    Called("buildLoopNest", n, iterArgs, bodyBuilder,
           buildLoopNest(ir, EntryBlock, Len(ir.blocks[EntryBlock].ops),
                         SubSeq(LoopNestLbs, 1, n), SubSeq(LoopNestUbs, 1, n),
                         SubSeq(LoopNestSteps, 1, n), iterArgs, bodyBuilder))

CallBuildLoopNestNoIterArgs ==
  \E n \in 0 .. MaxNest, bodyBuilder \in {"null", "compute"} :
    Called("buildLoopNest(no iterArgs)", n, <<>>, bodyBuilder,
           buildLoopNestNoIterArgs(ir, EntryBlock, Len(ir.blocks[EntryBlock].ops),
                                   SubSeq(LoopNestLbs, 1, n), SubSeq(LoopNestUbs, 1, n),
                                   SubSeq(LoopNestSteps, 1, n), bodyBuilder))

InitLoopNest == Start({LoopNestSeed})

NextLoopNest ==
  \/ CallBuildLoopNest
  \/ CallBuildLoopNestNoIterArgs

SpecLoopNest == InitLoopNest /\ [][NextLoopNest]_vars

\* ------------------------------------------------------------- region flow
\* RegionBranchOpInterface.  A branch point or a successor is the index of a
\* region of the op in its region list, or Parent for the op itself.  The
\* operand attributes a caller passes are NullAttr (value not known) or an
\* integer attribute.
Parent == 0
NullAttr == [k |-> "noattr", id |-> 0, i |-> 0]
RegionSuccessor(region, inputs) == [region |-> region, inputs |-> inputs]
InvocationBounds(lb, ub) == <<lb, ub>>
getNumRegions(G, o) == Len(G.ops[o].regions)
getRegions(G, o) == [r \in 1 .. getNumRegions(G, o) |-> RegionSuccessor(r, <<>>)]

\* ForOp::getSuccessorRegions: both the parent and the body branch into the
\* body or leave the loop.
ForOp_getSuccessorRegions(G, o, point) ==
  <<RegionSuccessor(1, getRegionIterArgs(G, o)),
    RegionSuccessor(Parent, getResults(G, o))>>

\* A variant of ForallOp::getSuccessorRegions in which the body also
\* branches back into itself.
ForallOp_getSuccessorRegionsWithBackEdge(G, o, point) ==
  IF point = Parent THEN <<RegionSuccessor(1, <<>>)>>
  ELSE <<RegionSuccessor(1, <<>>), RegionSuccessor(Parent, <<>>)>>

\* ForallOp::getSuccessorRegions: the parent branches into the body; the
\* body only leaves to the parent.
ForallOp_getSuccessorRegions(G, o, point) ==
  IF point = Parent THEN <<RegionSuccessor(1, <<>>)>>
  ELSE <<RegionSuccessor(Parent, <<>>)>>

\* WhileOp::getSuccessorRegions: region 1 is the before region, region 2
\* the after region.
WhileOp_getSuccessorRegions(G, o, point) ==
  IF point = Parent THEN <<RegionSuccessor(1, getBeforeArguments(G, o))>>
  ELSE IF point = 2 THEN <<RegionSuccessor(1, getBeforeArguments(G, o))>>
  ELSE <<RegionSuccessor(Parent, getResults(G, o)),
         RegionSuccessor(2, getAfterArguments(G, o))>>

\* IfOp::getEntrySuccessorRegions: region 1 is the then region, region 2
\* the else region.
IfOp_getEntrySuccessorRegions(G, o, condition) ==
  LET boolAttr == condition # NullAttr
      thenPart == IF ~boolAttr \/ condition.i # 0
                  THEN <<RegionSuccessor(1, <<>>)>> ELSE <<>>
      elsePart == IF ~boolAttr \/ condition.i = 0
                  THEN IF hasElse(G, o) THEN <<RegionSuccessor(2, <<>>)>>
                       ELSE <<RegionSuccessor(Parent, getResults(G, o))>>
                  ELSE <<>>
  IN thenPart \o elsePart

\* IfOp::getRegionInvocationBounds.
IfOp_getRegionInvocationBounds(G, o, condition) ==
  IF condition # NullAttr
  THEN <<InvocationBounds(0, IF condition.i # 0 THEN 1 ELSE 0),
         InvocationBounds(0, IF condition.i # 0 THEN 0 ELSE 1)>>
  ELSE <<InvocationBounds(0, 1), InvocationBounds(0, 1)>>

\* IndexSwitchOp::getEntrySuccessorRegions: region 1 is the default region,
\* region 1 + j the region of case j.
IndexSwitchOp_getEntrySuccessorRegions(G, o, arg) ==
  IF arg = NullAttr THEN getRegions(G, o)
  ELSE LET hits == {j \in DOMAIN getCases(G, o) : getCases(G, o)[j] = arg.i}
       IN IF hits # {} THEN <<RegionSuccessor(1 + MinOf(hits), <<>>)>>
          ELSE <<RegionSuccessor(1, <<>>)>>

\* IndexSwitchOp::getRegionInvocationBounds.  liveIndex counts regions from
\* zero, as the source does: entry i + 1 of the result is for region i + 1.
IndexSwitchOp_getRegionInvocationBounds(G, o, operandValue) ==
  IF operandValue = NullAttr
  THEN [r \in 1 .. getNumRegions(G, o) |-> InvocationBounds(0, 1)]
  ELSE LET hits == {j \in DOMAIN getCases(G, o) :
                      getCases(G, o)[j] = operandValue.i}
           liveIndex == IF hits # {} THEN MinOf(hits) - 1
                        ELSE getNumRegions(G, o) - 1
       IN [r \in 1 .. getNumRegions(G, o) |->
             InvocationBounds(0, IF r - 1 = liveIndex THEN 1 ELSE 0)]

\* The operand attributes the callers pass.
ConditionAttrs == {NullAttr, IntAttr(0), IntAttr(1)}
SelectorAttrs == {NullAttr} \cup {IntAttr(n) : n \in 0 .. 3}

\* A query leaves the graph alone and records its answer.
Answered(name, o, point, operand, successors, bounds) ==
  /\ last' = [pattern |-> name, op |-> o, ok |-> TRUE, ub |-> FALSE,
              point |-> point, operand |-> operand,
              successors |-> successors, bounds |-> bounds]
  /\ UNCHANGED <<ir, pre, steps>>

QueryForSuccessors ==
  \E o \in OpsOfKind(ir, "scf.for"), point \in 0 .. 1 :
    Answered("ForOp::getSuccessorRegions", o, point, NullAttr,
             ForOp_getSuccessorRegions(ir, o, point), <<>>)

QueryForallSuccessors ==
  \E o \in OpsOfKind(ir, "scf.forall"), point \in 0 .. 1 :
    Answered("ForallOp::getSuccessorRegions", o, point, NullAttr,
             ForallOp_getSuccessorRegions(ir, o, point), <<>>)

QueryWhileSuccessors ==
  \E o \in OpsOfKind(ir, "scf.while"), point \in 0 .. 2 :
    Answered("WhileOp::getSuccessorRegions", o, point, NullAttr,
             WhileOp_getSuccessorRegions(ir, o, point), <<>>)

QueryIfEntrySuccessors ==
  \E o \in OpsOfKind(ir, "scf.if"), condition \in ConditionAttrs :
    Answered("IfOp::getEntrySuccessorRegions", o, Parent, condition,
             IfOp_getEntrySuccessorRegions(ir, o, condition), <<>>)

QueryIfInvocationBounds ==
  \E o \in OpsOfKind(ir, "scf.if"), condition \in ConditionAttrs :
    Answered("IfOp::getRegionInvocationBounds", o, Parent, condition, <<>>,
             IfOp_getRegionInvocationBounds(ir, o, condition))

QueryIndexSwitchEntrySuccessors ==
  \E o \in OpsOfKind(ir, "scf.index_switch"), arg \in SelectorAttrs :
    Answered("IndexSwitchOp::getEntrySuccessorRegions", o, Parent, arg,
             IndexSwitchOp_getEntrySuccessorRegions(ir, o, arg), <<>>)

QueryIndexSwitchInvocationBounds ==
  \E o \in OpsOfKind(ir, "scf.index_switch"), arg \in SelectorAttrs :
    Answered("IndexSwitchOp::getRegionInvocationBounds", o, Parent, arg, <<>>,
             IndexSwitchOp_getRegionInvocationBounds(ir, o, arg))

RegionFlowSeeds ==
  ForSeeds \cup ForallSeeds \cup WhileSeeds \cup IfSeeds \cup SwitchSeeds

InitRegionFlow == Start(RegionFlowSeeds)

NextRegionFlow ==
  \/ QueryForSuccessors
  \/ QueryForallSuccessors
  \/ QueryWhileSuccessors
  \/ QueryIfEntrySuccessors
  \/ QueryIfInvocationBounds
  \/ QueryIndexSwitchEntrySuccessors
  \/ QueryIndexSwitchInvocationBounds

SpecRegionFlow == InitRegionFlow /\ [][NextRegionFlow]_vars

\* ------------------------------------------------------------ verification
\* The switches handed to the verifier: any case values, any number of case
\* regions, each region ending in a yield of nothing, of an i64, of an index,
\* or in another operation.
VerifyTerminators == {"none", "i64", "index", "test"}
VerifyTerminator(t) ==
  IF t = "none" THEN YieldOp(<<>>)
  ELSE IF t = "i64" THEN YieldOp(<<Res(3, 1)>>)
  ELSE IF t = "index" THEN YieldOp(<<Res(2, 1)>>)
  ELSE TestOp(9, <<>>, <<>>)

VerifySeed(cases, terms, types) ==
  [ops |-> (0 :> FuncOp) @@ (2 :> ConstantOp("index", 0))
           @@ (3 :> ConstantOp("i64", 1))
           @@ (6 :> IndexSwitchOpRec(Res(2, 1), cases, types,
                                     [r \in DOMAIN terms |-> <<9 + r>>]))
           @@ (7 :> ReturnOp(<<>>))
           @@ [p \in {20 + r : r \in DOMAIN terms} |->
                 VerifyTerminator(terms[p - 20])],
   blocks |-> (1 :> Block(<<>>, <<2, 3, 6, 7>>))
              @@ [b \in {9 + r : r \in DOMAIN terms} |->
                    Block(<<>>, <<b + 11>>)],
   next |-> 30]

VerifyCases == {<<>>, <<1>>, <<1, 2>>, <<1, 1>>}
VerifyTerms ==
  UNION {[1 .. n -> VerifyTerminators] : n \in 1 .. 3}
VerifySeeds ==
  {VerifySeed(cases, terms, types) :
     cases \in VerifyCases, terms \in VerifyTerms,
     types \in {<<>>, <<"i64">>}}

VerifyIndexSwitch ==
  \E o \in OpsOfKind(ir, "scf.index_switch") :
    /\ last.pattern = "none"
    /\ last' = [pattern |-> "IndexSwitchOp::verify", op |-> o,
                ok |-> IndexSwitchOp_verify(ir, o), ub |-> FALSE]
    /\ UNCHANGED <<ir, pre, steps>>

InitVerify == Start(VerifySeeds)
NextVerify == VerifyIndexSwitch
SpecVerify == InitVerify /\ [][NextVerify]_vars

\* ---------------------------------------------------------- parallel loops
\* func(n: index) {
\*   c0 = 0; c1 = 1; c2 = 2; z = test : i64
\*   parallel (i) = (c0) to (ub) step (c1) [init (z)] {
\*     parallel (j) = (lb2) to (ub2) step (st2) [init (z)] {
\*       test(i, j); reduce [(z) { ^(a, b): reduce.return a }] }
\*     reduce [(z) { ^(a, b): reduce.return a }] }
\*   return }
\* dep names the bound of the inner loop that is the outer induction
\* variable; inits names the loops that carry an init value.
ParallelMergeSeed(d1, dep, inits) ==
  LET outerInit == inits \in {"outer", "both"}
      innerInit == inits \in {"inner", "both"}
      inner(b, v) == IF dep = b THEN Arg(10, 1) ELSE v
  IN [ops |-> (0 :> FuncOp) @@ (2 :> ConstantOp("index", 0))
              @@ (3 :> ConstantOp("index", 1)) @@ (4 :> ConstantOp("index", 2))
              @@ (5 :> TestOp(1, <<>>, <<"i64">>))
              @@ (6 :> ParallelOpRec(<<Res(2, 1)>>, <<ParallelDim(d1)[2]>>, <<Res(3, 1)>>,
                                     IF outerInit THEN <<Res(5, 1)>> ELSE <<>>,
                                     IF outerInit THEN <<"i64">> ELSE <<>>,
                                     <<<<10>>>>))
              @@ (7 :> ReturnOp(<<>>))
              @@ (12 :> ParallelOpRec(<<inner("lb", Res(2, 1))>>,
                                      <<inner("ub", Res(4, 1))>>,
                                      <<inner("step", Res(3, 1))>>,
                                      IF innerInit THEN <<Res(5, 1)>> ELSE <<>>,
                                      IF innerInit THEN <<"i64">> ELSE <<>>,
                                      <<<<11>>>>))
              @@ (13 :> ReduceOp(IF outerInit THEN <<Res(5, 1)>> ELSE <<>>,
                                 IF outerInit THEN <<<<16>>>> ELSE <<>>))
              @@ (14 :> TestOp(2, <<Arg(10, 1), Arg(11, 1)>>, <<>>))
              @@ (15 :> ReduceOp(IF innerInit THEN <<Res(5, 1)>> ELSE <<>>,
                                 IF innerInit THEN <<<<17>>>> ELSE <<>>))
              @@ (IF outerInit
                  THEN (18 :> Operation("scf.reduce.return", <<Arg(16, 1)>>,
                                        <<>>, <<>>, <<>>))
                  ELSE NoOps)
              @@ (IF innerInit
                  THEN (19 :> Operation("scf.reduce.return", <<Arg(17, 1)>>,
                                        <<>>, <<>>, <<>>))
                  ELSE NoOps),
      blocks |-> (1 :> Block(<<"index">>, <<2, 3, 4, 5, 6, 7>>))
                 @@ (10 :> Block(<<"index">>, <<12, 13>>))
                 @@ (11 :> Block(<<"index">>, <<14, 15>>))
                 @@ (IF outerInit THEN (16 :> Block(<<"i64", "i64">>, <<18>>))
                     ELSE NoOps)
                 @@ (IF innerInit THEN (17 :> Block(<<"i64", "i64">>, <<19>>))
                     ELSE NoOps),
      next |-> 20]

ParallelMergeSeeds ==
  {ParallelMergeSeed(d1, dep, inits) :
     d1 \in ParallelDims, dep \in {"none", "lb", "ub", "step"},
     inits \in {"none", "outer", "inner", "both"}}

InitParallel == Start(ParallelSeeds \cup ParallelMergeSeeds)

NextParallel ==
  \/ ApplyParallelOpSingleOrZeroIterationDimsFolder
  \/ ApplyMergeNestedParallelLoops

SpecParallel == InitParallel /\ [][NextParallel]_vars

\* ------------------------------------------------- if with matching yields
\* func(c: i1, v: i64) {
\*   nine = 9 : i64
\*   r0, r1 = if c { yield nine, v } else { yield nine, v }
\*   return r0, r1 }
MatchingYieldsSeed ==
  [ops |-> (0 :> FuncOp) @@ (2 :> ConstantOp("i64", 9))
           @@ (5 :> IfOpRec(<<"i64", "i64">>, Arg(1, 1), <<6>>, <<7>>))
           @@ (9 :> YieldOp(<<Res(2, 1), Arg(1, 2)>>))
           @@ (10 :> YieldOp(<<Res(2, 1), Arg(1, 2)>>))
           @@ (11 :> ReturnOp(<<Res(5, 1), Res(5, 2)>>)),
   blocks |-> (1 :> Block(<<"i1", "i64">>, <<2, 5, 11>>))
              @@ (6 :> Block(<<>>, <<9>>))
              @@ (7 :> Block(<<>>, <<10>>)),
   next |-> 12]

\* The results of the If patterns and of the fold on one If.
IfPatternResults(G, o) ==
  {IfOp_fold(G, o), CombineIfs(G, o), CombineNestedIfs(G, o),
   ConvertTrivialIfToSelect(G, o), RemoveEmptyElseBranch(G, o),
   RemoveStaticCondition(G, o), RemoveUnusedResults(G, o),
   ReplaceIfYieldWithConditionOrValue(G, o)}

\* No If pattern matches any If of the graph.
NoIfPatternMatches(G) ==
  \A o \in OpsOfKind(G, "scf.if") :
    \A r \in IfPatternResults(G, o) : ~r.ok /\ ~r.ub

InitIfScenario == Start(IfSeeds \cup {MatchingYieldsSeed})

SpecIfScenario == InitIfScenario /\ [][NextIf]_vars

\* ------------------------------------------------------- chained invariance
\* The seed loops with both init operands the same value.
WhileChainSeeds ==
  {[s EXCEPT !.ops[2].operands = <<Arg(1, 1), Arg(1, 1)>>] : s \in WhileSeeds}

InitWhileChain == Start(WhileSeeds \cup WhileChainSeeds)

SpecWhileChain == InitWhileChain /\ [][NextWhile]_vars

\* --------------------------------------------------------- iter arg folding
\* func(n: index, a: index) {
\*   c0 = 0; c1 = 1
\*   r:4 = for i = c0 to n step c1 iter(x1 = i1, .., x4 = i4) {
\*     v = test(x1) : index
\*     yield y1, y2, y3, y4 }
\*   return (the results, when used) }
ForFoldSeed(inits, yields, used) ==
  [ops |-> (0 :> FuncOp) @@ (2 :> ConstantOp("index", 0))
           @@ (3 :> ConstantOp("index", 1))
           @@ (4 :> ForOp(Res(2, 1), Arg(1, 1), Res(3, 1), inits,
                          <<"index", "index", "index", "index">>, 8))
           @@ (5 :> ReturnOp(IF used THEN <<Res(4, 1), Res(4, 2), Res(4, 3), Res(4, 4)>>
                             ELSE <<>>))
           @@ (9 :> TestOp(1, <<Arg(8, 2)>>, <<"index">>))
           @@ (11 :> YieldOp(yields)),
   blocks |-> (1 :> Block(<<"index", "index">>, <<2, 3, 4, 5>>))
              @@ (8 :> Block(<<"index", "index", "index", "index", "index">>,
                             <<9, 11>>)),
   next |-> 12]

ForFoldInits ==
  {<<Arg(1, 2), i2, i3, i4>> :
     i2 \in {Arg(1, 2), Res(3, 1)}, i3 \in {Arg(1, 2), Res(3, 1)},
     i4 \in {Arg(1, 2), Res(3, 1)}}

ForFoldYields ==
  {<<y1, y2, y3, y4>> :
     y1 \in {Res(9, 1), Arg(1, 2)},
     y2 \in {Res(9, 1), Arg(8, 3), Arg(8, 4)},
     y3 \in {Res(9, 1), Arg(8, 4), Arg(8, 2)},
     y4 \in {Res(9, 1), Arg(8, 4), Arg(1, 2)}}

ForFoldSeeds ==
  {ForFoldSeed(inits, yields, used) :
     inits \in ForFoldInits, yields \in ForFoldYields, used \in BOOLEAN}

InitForIter == Start(ForFoldSeeds)

NextForIter == ApplyForOpIterArgsFolder

SpecForIter == InitForIter /\ [][NextForIter]_vars

\* ----------------------------------------------------------- negated ifs
\* The IfYieldSeed programs with the condition negated twice:
\*   n = c xor t; m = n xor t; r1, r2 = if m { .. } else { .. }
IfDoubleNegationSeeds ==
  {[ops |-> (12 :> XOrIOp(Res(4, 1), Res(2, 1)))
            @@ [s.ops EXCEPT ![5].operands = <<Res(12, 1)>>],
    blocks |-> [s.blocks EXCEPT ![1].ops = <<2, 3, 4, 12, 5, 11>>],
    next |-> 13] :
     s \in {IfYieldSeed(Res(4, 1), k1, k2, <<Res(5, 1), Res(5, 2)>>) :
              k1 \in 1 .. 5, k2 \in 1 .. 5}}

InitIfFold == Start(IfSeeds \cup IfDoubleNegationSeeds)

SpecIfFold == InitIfFold /\ [][NextIf]_vars

\* ------------------------------------------------ single or zero iterations
\* The forall and parallel loops the two dimension folders are applied to.
InitDims == Start(ForallSeeds \cup ParallelSeeds)

NextDims ==
  \/ ApplyForallOpSingleOrZeroIterationDimsFolder
  \/ ApplyParallelOpSingleOrZeroIterationDimsFolder

SpecDims == InitDims /\ [][NextDims]_vars

\* -------------------------------------------------- aligned condition args
\* func(a, b, c: i1) {
\*   r1, r2, r3 = while (x1 = a, x2 = b, x3 = c) {
\*       t = test.op(x1, x2, x3); condition(cond) args }
\*     do (z1, z2, z3) { w = test.op(z1, z2, z3); yield yields };
\*   return r1, r2, r3 }
WhileAlignSeed(cond, args, yields) ==
  [ops |-> (0 :> FuncOp)
           @@ (2 :> WhileOpRec(<<"i1", "i1", "i1">>, <<Arg(1, 1), Arg(1, 2), Arg(1, 3)>>,
                               <<10>>, <<11>>))
           @@ (3 :> ReturnOp(<<Res(2, 1), Res(2, 2), Res(2, 3)>>))
           @@ (12 :> TestOp(1, <<Arg(10, 1), Arg(10, 2), Arg(10, 3)>>, <<"i1">>))
           @@ (13 :> ConditionOp(cond, args))
           @@ (14 :> TestOp(2, <<Arg(11, 1), Arg(11, 2), Arg(11, 3)>>, <<"i1">>))
           @@ (15 :> YieldOp(yields)),
   blocks |-> (1 :> Block(<<"i1", "i1", "i1">>, <<2, 3>>))
              @@ (10 :> Block(<<"i1", "i1", "i1">>, <<12, 13>>))
              @@ (11 :> Block(<<"i1", "i1", "i1">>, <<14, 15>>)),
   next |-> 20]

\* The forwarded values: the six orders of the before-block arguments, a
\* repeated argument, a value from outside the loop and a value computed in
\* the before block.
WhileAlignArgs ==
  {<<Arg(10, i), Arg(10, j), Arg(10, k)>> : i \in 1 .. 3, j \in 1 .. 3, k \in 1 .. 3}
  \cup {<<Arg(10, 2), Arg(10, 3), Arg(1, 1)>>, <<Arg(10, 3), Res(12, 1), Arg(10, 1)>>}

WhileAlignYields ==
  {<<Arg(11, 1), Arg(11, 2), Arg(11, 3)>>, <<Arg(11, 2), Arg(11, 3), Arg(11, 1)>>,
   <<Res(14, 1), Arg(11, 1), Arg(1, 2)>>}

WhileAlignSeeds ==
  {WhileAlignSeed(cond, args, yields) :
     cond \in {Res(12, 1), Arg(10, 1)}, args \in WhileAlignArgs,
     yields \in WhileAlignYields}

InitWhileAlign == Start(WhileSeeds \cup WhileAlignSeeds)

NextWhileAlign == ApplyWhileOpAlignBeforeArgs

SpecWhileAlign == InitWhileAlign /\ [][NextWhileAlign]_vars

\* ------------------------------------------------ the condition holds after
\* func(a: index, b: index) {
\*   w:2 = while (p = a, q = b) { c = cmpi slt, l, r; condition(c) ca[1], ca[2] }
\*     do { ^(x1, x2): c2 = cmpi pred, l2, r2; u = test(c2, x1, x2) : index;
\*                     yield ys[1], ys[2] }
\*   return w#0, w#1 }
\* The types of x1, x2 and of the results are those of ca[1] and ca[2].
WhileCondSeedType(v) == IF v = Res(12, 1) THEN "i1" ELSE "index"

WhileCondSeed(lr, ca, pred, lr2, ys) ==
  LET T == <<WhileCondSeedType(ca[1]), WhileCondSeedType(ca[2])>>
  IN [ops |-> (0 :> FuncOp)
              @@ (2 :> WhileOpRec(T, <<Arg(1, 1), Arg(1, 2)>>, <<10>>, <<11>>))
              @@ (3 :> ReturnOp(<<Res(2, 1), Res(2, 2)>>))
              @@ (12 :> CmpIOp(2, lr[1], lr[2]))
              @@ (13 :> ConditionOp(Res(12, 1), ca))
              @@ (14 :> CmpIOp(pred, lr2[1], lr2[2]))
              @@ (15 :> TestOp(1, <<Res(14, 1), Arg(11, 1), Arg(11, 2)>>, <<"index">>))
              @@ (16 :> YieldOp(ys)),
      blocks |-> (1 :> Block(<<"index", "index">>, <<2, 3>>))
                 @@ (10 :> Block(<<"index", "index">>, <<12, 13>>))
                 @@ (11 :> Block(T, <<14, 15, 16>>)),
      next |-> 20]

\* The operands of the loop condition (values of the before region), the
\* forwarded values, and the operands of the comparison of the after region
\* (after-block arguments and values from outside the loop, of one type).
WhileCondCmps ==
  {<<Arg(10, 2), Arg(1, 1)>>, <<Arg(1, 1), Arg(10, 2)>>, <<Arg(10, 2), Arg(10, 2)>>,
   <<Arg(1, 1), Arg(1, 1)>>, <<Arg(10, 1), Arg(10, 2)>>, <<Arg(1, 1), Arg(1, 2)>>}
WhileCondForwarded ==
  {<<Arg(10, 2), Res(12, 1)>>, <<Res(12, 1), Arg(10, 2)>>, <<Arg(1, 1), Arg(10, 2)>>,
   <<Arg(10, 2), Arg(10, 2)>>, <<Arg(10, 1), Arg(10, 2)>>, <<Arg(10, 2), Arg(10, 1)>>,
   <<Res(12, 1), Res(12, 1)>>, <<Arg(1, 2), Arg(1, 1)>>}
WhileCondCmps2 ==
  {<<Arg(11, 1), Arg(1, 1)>>, <<Arg(1, 1), Arg(11, 1)>>, <<Arg(11, 1), Arg(11, 1)>>,
   <<Arg(11, 2), Arg(1, 1)>>, <<Arg(1, 1), Arg(11, 2)>>, <<Arg(11, 1), Arg(11, 2)>>,
   <<Arg(11, 2), Arg(11, 1)>>, <<Arg(11, 1), Arg(1, 2)>>, <<Arg(1, 1), Arg(1, 2)>>}
WhileCondYields ==
  {<<Arg(1, 1), Res(15, 1)>>, <<Res(15, 1), Arg(1, 2)>>, <<Arg(1, 2), Arg(1, 1)>>}
WhileCondPredicates == {0, 2, 4, 5}

WhileCondSeeds ==
  {WhileCondSeed(s[1], s[2], s[3], s[4], s[5]) :
     s \in {t \in WhileCondCmps \X WhileCondForwarded \X WhileCondPredicates
                    \X WhileCondCmps2 \X WhileCondYields :
              \A k \in 1 .. 2 : \A i \in 1 .. 2 :
                t[4][k] = Arg(11, i) => WhileCondSeedType(t[2][i]) = "index"}}

InitWhileCond == Start(WhileCondSeeds)

NextWhileCond ==
  \/ ApplyWhileConditionTruth
  \/ ApplyWhileCmpCond

SpecWhileCond == InitWhileCond /\ [][NextWhileCond]_vars

\* ------------------------------------------------- forall control operands
InitForallControl == Start(ForallSeeds)

NextForallControl == ApplyForallOpControlOperandsFolder

SpecForallControl == InitForallControl /\ [][NextForallControl]_vars

\* ============================================================== properties
Applied(name) == last.pattern = name /\ last.ok

\* The loop is one SimplifyTrivialLoops treats as running zero times.
ZeroTrip(G, o) ==
  \/ getLowerBound(G, o) = getUpperBound(G, o)
  \/ /\ computeConstDiff(G, getLowerBound(G, o), getUpperBound(G, o)).known
     /\ computeConstDiff(G, getLowerBound(G, o), getUpperBound(G, o)).diff <= 0

\* The loop is one SimplifyTrivialLoops treats as running exactly once.
SingleTrip(G, o) ==
  /\ ~ZeroTrip(G, o)
  /\ computeConstDiff(G, getLowerBound(G, o), getUpperBound(G, o)).known
  /\ isConstant(G, getStep(G, o))
  /\ getConstantIntValue(G, getStep(G, o))
       >= computeConstDiff(G, getLowerBound(G, o), getUpperBound(G, o)).diff

\* Every use of result i of op o in graph G holds value vs[i] in graph H.
UsesReplacedBy(G, H, o, vs) ==
  \A i \in 1 .. getNumResults(G, o) :
    \A u \in getUses(G, Res(o, i)) :
      u[1] \in DOMAIN H.ops /\ H.ops[u[1]].operands[u[2]] = vs[i]

\* C3: SimplifyTrivialLoops on a loop with lower = upper or a computed
\* constant difference <= 0 replaces each result by the matching init
\* operand, erases the loop, and the program computes what the original loop
\* (zero iterations, signed lower < upper) computes for every input.
C3_ZeroTripSound ==
  (Applied("SimplifyTrivialLoops") /\ ZeroTrip(pre, last.op)) =>
    /\ last.op \notin DOMAIN ir.ops
    /\ UsesReplacedBy(pre, ir, last.op, getInitArgs(pre, last.op))
    /\ Equivalent(pre, ir)

\* C4: whenever SimplifyTrivialLoops (constant step >= constant difference
\* > 0) or promoteIfSingleIteration inlines the body of a loop as its single
\* iteration, the program computes what the original loop computes for
\* every input in W-bit arithmetic.
C4_SingleTripSound ==
  (\/ Applied("SimplifyTrivialLoops") /\ SingleTrip(pre, last.op)
   \/ Applied("promoteIfSingleIteration")) =>
    /\ last.op \notin DOMAIN ir.ops
    /\ Equivalent(pre, ir)

\* C5: the static difference never wraps: for constant bounds whose true
\* difference is not representable in W bits computeConstDiff is unknown or
\* saturated with the right sign, so that a loop with constant lower < upper
\* is never erased as zero-trip and one with constant lower > upper is never
\* inlined as a single iteration.
C5_ConstDiffNeverWraps ==
  /\ \A o \in OpsOfKind(ir, "scf.for") :
       (isConstant(ir, getLowerBound(ir, o)) /\ isConstant(ir, getUpperBound(ir, o))) =>
         LET l == getConstantIntValue(ir, getLowerBound(ir, o))
             u == getConstantIntValue(ir, getUpperBound(ir, o))
             d == computeConstDiff(ir, getLowerBound(ir, o), getUpperBound(ir, o))
         IN (u - l \notin Ints) =>
              \/ ~d.known
              \/ u - l > 0 /\ d.diff = MaxInt
              \/ u - l < 0 /\ d.diff = MinInt
  /\ (/\ Applied("SimplifyTrivialLoops")
      /\ isConstant(pre, getLowerBound(pre, last.op))
      /\ isConstant(pre, getUpperBound(pre, last.op))) =>
       LET l == getConstantIntValue(pre, getLowerBound(pre, last.op))
           u == getConstantIntValue(pre, getUpperBound(pre, last.op))
       IN /\ ~(l < u /\ ZeroTrip(pre, last.op))
          /\ ~(l > u /\ SingleTrip(pre, last.op))

\* The operation right before o in its block, or -1.
isNegationOf(G, a, b) ==
  /\ isXOrI(G, a) /\ G.ops[a.id].operands[1] = b /\ m_One(G, G.ops[a.id].operands[2])

\* The region index (1 = then, 2 = else) of If op o that operation u is
\* nested in, or 0.
BranchOf(G, o, u) ==
  IF u \in UNION {NestedOps(G, c) : c \in Range(G.blocks[thenBlock(G, o)].ops)} THEN 1
  ELSE IF hasElse(G, o)
          /\ u \in UNION {NestedOps(G, c) : c \in Range(G.blocks[elseBlock(G, o)].ops)}
  THEN 2 ELSE 0

\* C6: CombineIfs succeeds on adjacent Ifs whose conditions are equal or
\* negations of each other; it leaves one If guarded by the first condition
\* whose results are the first op's results followed by the second's; a use
\* of a first-If result inside the second If becomes the first If's yield
\* operand of the branch it now runs in; and the program returns the same
\* values and makes the same opaque calls in the same order as before.
C6_CombineIfsSound ==
  /\ \A o \in OpsOfKind(ir, "scf.if") :
       LET p == getPrevNode(ir, o)
       IN (/\ p # -1 /\ ir.ops[p].kind = "scf.if"
           /\ \/ getCondition(ir, o) = getCondition(ir, p)
              \/ isNegationOf(ir, getCondition(ir, o), getCondition(ir, p))
              \/ isNegationOf(ir, getCondition(ir, p), getCondition(ir, o)))
          => CombineIfs(ir, o).ok
  /\ Applied("CombineIfs") =>
       LET nextIf == last.op
           prevIf == getPrevNode(pre, nextIf)
           combinedIf == pre.next
           np == getNumResults(pre, prevIf)
       IN /\ prevIf \notin DOMAIN ir.ops /\ nextIf \notin DOMAIN ir.ops
          /\ combinedIf \in OpsOfKind(ir, "scf.if")
          /\ getCondition(ir, combinedIf) = getCondition(pre, prevIf)
          /\ ir.ops[combinedIf].types = pre.ops[prevIf].types \o pre.ops[nextIf].types
          /\ \A i \in 1 .. getNumResults(pre, nextIf) :
               \A u \in getUses(pre, Res(nextIf, i)) :
                 ir.ops[u[1]].operands[u[2]] = Res(combinedIf, np + i)
          /\ \A i \in 1 .. np :
               \A u \in getUses(pre, Res(prevIf, i)) :
                 LET now == ir.ops[u[1]].operands[u[2]]
                     br  == BranchOf(ir, combinedIf, u[1])
                 IN IF u[1] \in NestedOps(pre, nextIf)
                    THEN /\ br \in {1, 2}
                         /\ br = 1 => now = pre.ops[thenYield(pre, prevIf)].operands[i]
                         /\ br = 2 => now = pre.ops[elseYield(pre, prevIf)].operands[i]
                    ELSE now = Res(combinedIf, i)
          /\ Equivalent(pre, ir)

\* C6 witness: CombineIfs fused an If with one result and an If on the
\* negated condition whose then and else bodies both use that result.
C6_Witness ==
  /\ Applied("CombineIfs")
  /\ getNumResults(pre, getPrevNode(pre, last.op)) = 1
  /\ getNumResults(pre, last.op) = 1
  /\ isNegationOf(pre, getCondition(pre, last.op),
                  getCondition(pre, getPrevNode(pre, last.op)))
  /\ \E u \in getUses(pre, Res(getPrevNode(pre, last.op), 1)) :
       u[1] \in NestedOps(pre, last.op)

\* C7: CombineNestedIfs, when it succeeds, guards the new If by
\* and(outer, inner); a position yielding an inner-If result is accepted only
\* when the inner else-yield is the outer else-yield; every other position
\* becomes select(outer condition, then-value, else-value); the program
\* computes the same for all inputs; and the pattern fails when a then-value
\* is defined inside the outer then region or when the outer or inner else
\* block holds more than a yield.
C7_CombineNestedIfsSound ==
  /\ \A o \in OpsOfKind(ir, "scf.if") :
       LET tb == thenBlock(ir, o)
           n  == Head(ir.blocks[tb].ops)
       IN (/\ Len(ir.blocks[tb].ops) = 2
           /\ ir.ops[n].kind = "scf.if"
           /\ \/ hasElse(ir, o) /\ ~hasSingleElement(ir, elseBlock(ir, o))
              \/ hasElse(ir, n) /\ ~hasSingleElement(ir, elseBlock(ir, n))
              \/ \E i \in 1 .. getNumResults(ir, o) :
                   LET y == ir.ops[thenYield(ir, o)].operands[i]
                   IN getDefiningOp(ir, y) # n /\ getParentRegion(ir, y) = <<o, 1>>)
          => ~CombineNestedIfs(ir, o).ok
  /\ Applied("CombineNestedIfs") =>
       LET op == last.op
           nestedIf == Head(pre.blocks[thenBlock(pre, op)].ops)
           andOp == pre.next
           newIf == pre.next + 1
           thenY == pre.ops[thenYield(pre, op)].operands
       IN /\ op \notin DOMAIN ir.ops /\ nestedIf \notin DOMAIN ir.ops
          /\ ir.ops[andOp].kind = "arith.andi"
          /\ ir.ops[andOp].operands = <<getCondition(pre, op), getCondition(pre, nestedIf)>>
          /\ newIf \in OpsOfKind(ir, "scf.if")
          /\ getCondition(ir, newIf) = Res(andOp, 1)
          /\ \A i \in 1 .. getNumResults(pre, op) :
               IF getDefiningOp(pre, thenY[i]) = nestedIf
               THEN /\ pre.ops[elseYield(pre, nestedIf)].operands[thenY[i].i]
                         = pre.ops[elseYield(pre, op)].operands[i]
                    /\ \A u \in getUses(pre, Res(op, i)) :
                         ir.ops[u[1]].operands[u[2]] = Res(newIf, i)
               ELSE \A u \in getUses(pre, Res(op, i)) :
                      LET now == ir.ops[u[1]].operands[u[2]]
                      IN /\ now.k = "res" /\ ir.ops[now.id].kind = "arith.select"
                         /\ ir.ops[now.id].operands =
                              <<getCondition(pre, op), thenY[i],
                                pre.ops[elseYield(pre, op)].operands[i]>>
          /\ Equivalent(pre, ir)

\* C7 witness: CombineNestedIfs rewrote an outer If with two results, one
\* yielding the inner If's result and one yielding a value defined outside.
C7_Witness ==
  /\ Applied("CombineNestedIfs")
  /\ getNumResults(pre, last.op) = 2
  /\ \E i \in 1 .. 2 :
       getDefiningOp(pre, pre.ops[thenYield(pre, last.op)].operands[i])
         = Head(pre.blocks[thenBlock(pre, last.op)].ops)
  /\ \E i \in 1 .. 2 :
       pre.ops[thenYield(pre, last.op)].operands[i].k = "arg"

\* What ReplaceIfYieldWithConditionOrValue is to do with result i of If o:
\* "value" (both branches yield the same value), "cond" (true / false),
\* "not" (false / true) or "keep".
YieldClass(G, o, i) ==
  LET t == G.ops[thenYield(G, o)].operands[i]
      e == G.ops[elseYield(G, o)].operands[i]
  IN IF t = e THEN "value"
     ELSE IF ~(isBoolConstant(G, t) /\ isBoolConstant(G, e)) THEN "keep"
     ELSE IF constantValue(G, t) = 1 /\ constantValue(G, e) = 0 THEN "cond"
     ELSE IF constantValue(G, t) = 0 /\ constantValue(G, e) = 1 THEN "not"
     ELSE "keep"

\* C8: ReplaceIfYieldWithConditionOrValue handles each result position on
\* its own: the same value in both branches replaces every use; true / false
\* gives the condition; false / true gives xor(condition, 1); any other
\* position keeps its uses; it succeeds exactly when some use was replaced;
\* and the program computes the same for both values of the condition.
C8_ReplaceIfYieldSound ==
  /\ \A o \in OpsOfKind(ir, "scf.if") :
       ReplaceIfYieldWithConditionOrValue(ir, o).ok <=>
         \E i \in 1 .. getNumResults(ir, o) :
           YieldClass(ir, o, i) # "keep" /\ ~use_empty(ir, Res(o, i))
  /\ Applied("ReplaceIfYieldWithConditionOrValue") =>
       LET op == last.op
       IN /\ \A i \in 1 .. getNumResults(pre, op) :
               \A u \in getUses(pre, Res(op, i)) :
                 LET now == ir.ops[u[1]].operands[u[2]]
                     cls == YieldClass(pre, op, i)
                 IN /\ cls = "value" => now = pre.ops[thenYield(pre, op)].operands[i]
                    /\ cls = "cond" => now = getCondition(pre, op)
                    /\ cls = "not" =>
                         /\ now.k = "res" /\ ir.ops[now.id].kind = "arith.xori"
                         /\ ir.ops[now.id].operands[1] = getCondition(pre, op)
                         /\ m_One(ir, ir.ops[now.id].operands[2])
                    /\ cls = "keep" => now = Res(op, i)
          /\ Equivalent(pre, ir)

\* C8 witness: one application replaced the uses of a false / true position
\* by the negated condition and kept the uses of another position.
C8_Witness ==
  /\ Applied("ReplaceIfYieldWithConditionOrValue")
  /\ \E i, j \in 1 .. getNumResults(pre, last.op) :
       /\ YieldClass(pre, last.op, i) = "not" /\ ~use_empty(pre, Res(last.op, i))
       /\ YieldClass(pre, last.op, j) = "keep" /\ ~use_empty(pre, Res(last.op, j))

\* The region the claim names for a constant selector c: the case region
\* whose case value equals c, or the default region (region 1).
ClaimedCaseRegion(G, o, c) ==
  IF \E j \in DOMAIN G.ops[o].attr : G.ops[o].attr[j] = c
  THEN 1 + (CHOOSE j \in DOMAIN G.ops[o].attr : G.ops[o].attr[j] = c)
  ELSE 1

\* C9: FoldConstantCase on a switch whose selector is the constant c
\* replaces the op by the inlined body of the case region with value c (the
\* default region when there is none) and result i by operand i of that
\* region's yield; it fails and changes nothing when the selector is not a
\* constant; selector 2 with cases {1: 10, 2: 20, default: 0} gives 20.
C9_FoldConstantCaseSound ==
  /\ \A o \in OpsOfKind(ir, "scf.index_switch") :
       IF isConstant(ir, ir.ops[o].operands[1])
       THEN FoldConstantCase(ir, o).ok
       ELSE ~FoldConstantCase(ir, o).ok /\ FoldConstantCase(ir, o).g = ir
  /\ Applied("FoldConstantCase") =>
       LET op == last.op
           c  == getSExtValue(constantValue(pre, pre.ops[op].operands[1]))
           source == pre.ops[op].regions[ClaimedCaseRegion(pre, op, c)][1]
           body == pre.blocks[source].ops
           parent == getBlock(pre, op)
           pos == IndexOf(pre.blocks[parent].ops, op)
       IN /\ op \notin DOMAIN ir.ops
          /\ UsesReplacedBy(pre, ir, op, pre.ops[getTerminator(pre, source)].operands)
          /\ ir.blocks[parent].ops =
               SubSeq(pre.blocks[parent].ops, 1, pos - 1)
               \o SubSeq(body, 1, Len(body) - 1)
               \o SubSeq(pre.blocks[parent].ops, pos + 1, Len(pre.blocks[parent].ops))
          /\ Equivalent(pre, ir)
          /\ (c = 2 /\ pre.ops[op].attr = <<1, 2>> /\ getNumResults(pre, op) = 1) =>
               \A inp \in Inputs(ir) : \A orc \in Oracles : Run(ir, inp, orc).ret = <<20>>

\* C9 witness: the switch on the constant 2 with cases 1 and 2 was folded
\* and the function now returns the constant 20.
C9_Witness ==
  /\ Applied("FoldConstantCase")
  /\ pre.ops[last.op].attr = <<1, 2>>
  /\ getNumResults(pre, last.op) = 1
  /\ getSExtValue(constantValue(pre, pre.ops[last.op].operands[1])) = 2
  /\ \E r \in OpsOfKind(ir, "func.return") :
       /\ isConstant(ir, ir.ops[r].operands[1])
       /\ constantValue(ir, ir.ops[r].operands[1]) = 20

\* The condition the claim gives for removing before-block argument i.
ClaimedInvariantArg(G, o, i) ==
  LET y == G.ops[getTerminator(G, G.ops[o].regions[2][1])].operands[i]
      init == G.ops[o].operands[i]
      condArgs == Tail(G.ops[getTerminator(G, G.ops[o].regions[1][1])].operands)
  IN \/ y = init
     \/ \E k \in DOMAIN condArgs :
          /\ y = Arg(G.ops[o].regions[2][1], k)
          /\ condArgs[k] = Arg(G.ops[o].regions[1][1], i) \/ condArgs[k] = init

\* C10: RemoveLoopInvariantArgsFromBeforeBlock removes before-block argument
\* i exactly when yield operand i is init operand i, or is after-block
\* argument k with condition argument k being before-block argument i or
\* init operand i; the uses of a removed argument become init operand i, init
\* and yield operand i are dropped, the kept arguments keep their order, and
\* every operation of the loop sees the same values and the loop returns
\* the same results in every execution.  (The pattern creates the new yield
\* first and the new loop second.)
C10_RemoveInvariantArgsSound ==
  /\ \A o \in OpsOfKind(ir, "scf.while") :
       RemoveLoopInvariantArgsFromBeforeBlock(ir, o).ok <=>
         \E i \in DOMAIN ir.ops[o].operands : ClaimedInvariantArg(ir, o, i)
  /\ Applied("RemoveLoopInvariantArgsFromBeforeBlock") =>
       LET op == last.op
           n  == Len(pre.ops[op].operands)
           keep == [i \in 1 .. n |-> ~ClaimedInvariantArg(pre, op, i)]
           newWhile == pre.next + 1
           before == pre.ops[op].regions[1][1]
       IN /\ op \notin DOMAIN ir.ops
          /\ newWhile \in OpsOfKind(ir, "scf.while")
          /\ ir.ops[newWhile].operands = Filter(pre.ops[op].operands, keep)
          /\ ir.ops[getYieldOp(ir, newWhile)].operands
               = Filter(pre.ops[getYieldOp(pre, op)].operands, keep)
          /\ Len(ir.blocks[getBeforeBody(ir, newWhile)].args) = Count(keep, n)
          /\ \A i \in 1 .. n :
               \A u \in getUses(pre, Arg(before, i)) :
                 ir.ops[u[1]].operands[u[2]] =
                   IF keep[i] THEN Arg(getBeforeBody(ir, newWhile), Count(keep, i))
                   ELSE pre.ops[op].operands[i]
          /\ UsesReplacedBy(pre, ir, op, getResults(ir, newWhile))
          /\ Equivalent(pre, ir)

\* C10 witness: the first before-block argument was removed because the
\* yield passes an after-block argument that the condition op feeds from it,
\* and the second argument was kept.
C10_Witness ==
  /\ Applied("RemoveLoopInvariantArgsFromBeforeBlock")
  /\ LET y == pre.ops[getYieldOp(pre, last.op)].operands
     IN /\ y[1].k = "arg" /\ y[1].id = getAfterBody(pre, last.op)
        /\ getConditionArgs(pre, last.op)[y[1].i] = Arg(getBeforeBody(pre, last.op), 1)
        /\ ~ClaimedInvariantArg(pre, last.op, 2)
  /\ ir.ops[pre.next + 1].kind = "scf.while"
  /\ Len(ir.ops[pre.next + 1].operands) = 1

\* The invariants of each construct: what its verifier checks, the operand
\* counts of its terminators and the terminator of every region.
VerifiesFor(G, o) ==
  /\ ForOp_verify(G, o)
  /\ ForOp_verifyRegions(G, o)
  /\ endsIn(G, o, 1, "scf.yield")
  /\ Len(getYieldedValues(G, o)) = getNumResults(G, o)

VerifiesIf(G, o) ==
  /\ IfOp_verify(G, o)
  /\ endsIn(G, o, 1, "scf.yield")
  /\ Len(G.ops[getTerminator(G, G.ops[o].regions[1][1])].operands) = getNumResults(G, o)
  /\ G.ops[o].regions[2] # <<>> =>
       /\ endsIn(G, o, 2, "scf.yield")
       /\ Len(G.ops[getTerminator(G, G.ops[o].regions[2][1])].operands)
            = getNumResults(G, o)

VerifiesWhile(G, o) ==
  /\ WhileOp_verify(G, o)
  /\ Len(getConditionArgs(G, o)) = Len(getAfterArguments(G, o))
  /\ Len(getAfterArguments(G, o)) = getNumResults(G, o)
  /\ Len(G.ops[getYieldOp(G, o)].operands) = Len(getBeforeArguments(G, o))
  /\ Len(getBeforeArguments(G, o)) = Len(G.ops[o].operands)

VerifiesForall(G, o) == ForallOp_verify(G, o) /\ endsIn(G, o, 1, "scf.forall.in_parallel")

Verifies(G, o) ==
  CASE G.ops[o].kind = "scf.for" -> VerifiesFor(G, o)
    [] G.ops[o].kind = "scf.if" -> VerifiesIf(G, o)
    [] G.ops[o].kind = "scf.while" -> VerifiesWhile(G, o)
    [] G.ops[o].kind = "scf.forall" -> VerifiesForall(G, o)
    [] G.ops[o].kind = "scf.parallel" -> ParallelOp_verify(G, o)
    [] G.ops[o].kind = "scf.index_switch" -> IndexSwitchOp_verify(G, o)
    [] OTHER -> TRUE

\* C2: after every application with a defined result, every for, forall, if,
\* while, parallel and index_switch operation reachable from the function
\* satisfies the invariants of its construct.
C2_EveryOpVerifies == last.ub \/ \A o \in Attached(ir) : Verifies(ir, o)

\* No sequence of applications reaches the bound on its length.
SequencesAreFinite == steps < MaxSteps

\* C1: every sequence of applications is finite and every application has a
\* defined result, so that every sequence ends in a state in which each
\* pattern returns failure on each operation and leaves the graph as it is.
C1_FixedPointReached == SequencesAreFinite /\ ~last.ub

\* Position i of While o is one WhileUnusedResult drops: neither result i
\* nor after-block argument i has a use.
DroppableWhilePosition(G, o, i) ==
  use_empty(G, Res(o, i)) /\ use_empty(G, Arg(getAfterBody(G, o), i))

\* C11: WhileUnusedResult drops exactly the positions at which result and
\* after-block argument both have no uses, from the condition-op arguments,
\* the after-block arguments and the results; RemoveUnusedResults drops
\* exactly the If results without uses, from the results and from both yields;
\* surviving entries keep their order, each surviving old result is replaced
\* by the new result of the same rank among the survivors, and each pattern
\* fails when no position can be dropped.
C11_UnusedResultsLockStep ==
  /\ \A o \in OpsOfKind(ir, "scf.while") :
       WhileUnusedResult(ir, o).ok <=>
         \E i \in 1 .. getNumResults(ir, o) : DroppableWhilePosition(ir, o, i)
  /\ \A o \in OpsOfKind(ir, "scf.if") :
       RemoveUnusedResults(ir, o).ok <=>
         \E i \in 1 .. getNumResults(ir, o) : use_empty(ir, Res(o, i))
  /\ Applied("WhileUnusedResult") =>
       LET op == last.op
           n  == getNumResults(pre, op)
           keep == [i \in 1 .. n |-> ~DroppableWhilePosition(pre, op, i)]
           newWhile == pre.next + 1
           survivors == [i \in 1 .. n |->
                           IF keep[i] THEN Res(newWhile, Count(keep, i)) ELSE NullValue]
       IN /\ op \notin DOMAIN ir.ops
          /\ newWhile \in OpsOfKind(ir, "scf.while")
          /\ ir.ops[newWhile].types = Filter(pre.ops[op].types, keep)
          /\ getConditionArgs(ir, newWhile) = Filter(getConditionArgs(pre, op), keep)
          /\ ir.blocks[getAfterBody(ir, newWhile)].args
               = Filter(pre.blocks[getAfterBody(pre, op)].args, keep)
          /\ UsesReplacedBy(pre, ir, op, survivors)
          /\ \A i \in 1 .. n :
               \A u \in getUses(pre, Arg(getAfterBody(pre, op), i)) :
                 ir.ops[u[1]].operands[u[2]]
                   = Arg(getAfterBody(ir, newWhile), Count(keep, i))
  /\ Applied("RemoveUnusedResults") =>
       LET op == last.op
           n  == getNumResults(pre, op)
           used == [i \in 1 .. n |-> ~use_empty(pre, Res(op, i))]
           newOp == pre.next
           survivors == [i \in 1 .. n |->
                           IF used[i] THEN Res(newOp, Count(used, i)) ELSE NullValue]
       IN /\ op \notin DOMAIN ir.ops
          /\ newOp \in OpsOfKind(ir, "scf.if")
          /\ ir.ops[newOp].types = Filter(pre.ops[op].types, used)
          /\ ir.ops[thenYield(ir, newOp)].operands
               = Filter(pre.ops[thenYield(pre, op)].operands, used)
          /\ ir.ops[elseYield(ir, newOp)].operands
               = Filter(pre.ops[elseYield(pre, op)].operands, used)
          /\ UsesReplacedBy(pre, ir, op, survivors)

\* C11 witness: WhileUnusedResult dropped the first of two positions; the
\* second one, whose after-block argument had a use, became the first
\* position of the new loop and that use now reads its first argument.
C11_Witness ==
  /\ Applied("WhileUnusedResult")
  /\ getNumResults(pre, last.op) = 2
  /\ DroppableWhilePosition(pre, last.op, 1)
  /\ ~use_empty(pre, Arg(getAfterBody(pre, last.op), 2))
  /\ getNumResults(ir, pre.next + 1) = 1
  /\ ~use_empty(ir, Arg(getAfterBody(ir, pre.next + 1), 1))

\* The result r of a pattern on graph G is not a failure that changed G.
FailureKeeps(G, r) == (~r.ok /\ ~r.ub) => r.g = G

\* C12: whenever a canonicalization pattern returns failure, the graph is
\* identical to the graph before the call: no registered pattern, on any
\* operation of any reachable graph, replaces a use, creates or erases an
\* operation or edits a block signature on a path that ends in failure.
C12_FailureChangesNothing ==
  /\ (last.pattern \notin {"none", "IfOp::fold"} /\ ~last.ok /\ ~last.ub) => ir = pre
  /\ ~last.ub =>
       /\ \A o \in OpsOfKind(ir, "scf.execute_region") :
            /\ FailureKeeps(ir, SingleBlockExecuteInliner(ir, o))
            /\ FailureKeeps(ir, MultiBlockExecuteInliner(ir, o))
       /\ \A o \in OpsOfKind(ir, "scf.for") :
            /\ FailureKeeps(ir, ForOpIterArgsFolder(ir, o))
            /\ FailureKeeps(ir, SimplifyTrivialLoops(ir, o))
            /\ FailureKeeps(ir, ForOpTensorCastFolder(ir, o))
       /\ \A o \in OpsOfKind(ir, "tensor.dim") : FailureKeeps(ir, DimOfForallOp(ir, o))
       /\ \A o \in OpsOfKind(ir, "scf.forall") :
            /\ FailureKeeps(ir, FoldTensorCastOfOutputIntoForallOp(ir, o))
            /\ FailureKeeps(ir, ForallOpControlOperandsFolder(ir, o))
            /\ FailureKeeps(ir, ForallOpIterArgsFolder(ir, o))
            /\ \A assertions \in BOOLEAN :
                 FailureKeeps(ir, ForallOpSingleOrZeroIterationDimsFolder(ir, o, assertions))
            /\ FailureKeeps(ir, ForallOpReplaceConstantInductionVar(ir, o))
       /\ \A o \in OpsOfKind(ir, "scf.if") :
            /\ FailureKeeps(ir, CombineIfs(ir, o))
            /\ FailureKeeps(ir, CombineNestedIfs(ir, o))
            /\ FailureKeeps(ir, ConvertTrivialIfToSelect(ir, o))
            /\ FailureKeeps(ir, RemoveEmptyElseBranch(ir, o))
            /\ FailureKeeps(ir, RemoveStaticCondition(ir, o))
            /\ FailureKeeps(ir, RemoveUnusedResults(ir, o))
            /\ FailureKeeps(ir, ReplaceIfYieldWithConditionOrValue(ir, o))
       /\ \A o \in OpsOfKind(ir, "scf.parallel") :
            /\ FailureKeeps(ir, ParallelOpSingleOrZeroIterationDimsFolder(ir, o))
            /\ FailureKeeps(ir, MergeNestedParallelLoops(ir, o))
       /\ \A o \in OpsOfKind(ir, "scf.while") :
            /\ FailureKeeps(ir, RemoveLoopInvariantArgsFromBeforeBlock(ir, o))
            /\ FailureKeeps(ir, RemoveLoopInvariantValueYielded(ir, o))
            /\ FailureKeeps(ir, WhileConditionTruth(ir, o))
            /\ FailureKeeps(ir, WhileCmpCond(ir, o))
            /\ FailureKeeps(ir, WhileUnusedResult(ir, o))
            /\ FailureKeeps(ir, WhileRemoveDuplicatedResults(ir, o))
            /\ FailureKeeps(ir, WhileRemoveUnusedArgs(ir, o))
            /\ FailureKeeps(ir, WhileOpAlignBeforeArgs(ir, o))
       /\ \A o \in OpsOfKind(ir, "scf.index_switch") :
            FailureKeeps(ir, FoldConstantCase(ir, o))

\* C12 witness: after an application, CombineIfs fails on an If that follows
\* another If with an unrelated condition, and WhileCmpCond fails on a loop
\* whose condition is a comparison.
C12_Witness ==
  /\ steps > 0
  /\ \/ \E o \in OpsOfKind(ir, "scf.if") :
          /\ getPrevNode(ir, o) # -1
          /\ ir.ops[getPrevNode(ir, o)].kind = "scf.if"
          /\ ~CombineIfs(ir, o).ok /\ ~CombineIfs(ir, o).ub
     \/ \E o \in OpsOfKind(ir, "scf.while") :
          /\ getDefiningOp(ir, ir.ops[getConditionOp(ir, o)].operands[1]) # -1
          /\ isCmpIOp(ir, getDefiningOp(ir, ir.ops[getConditionOp(ir, o)].operands[1]))
          /\ ~WhileCmpCond(ir, o).ok /\ ~WhileCmpCond(ir, o).ub

\* The patterns that build a new op of the matched op's kind in its place.
SubstitutingPatterns ==
  {"ForOpIterArgsFolder", "ForOpTensorCastFolder", "FoldTensorCastOfOutputIntoForallOp",
   "ForallOpIterArgsFolder", "RemoveUnusedResults", "ConvertTrivialIfToSelect",
   "CombineIfs", "CombineNestedIfs", "RemoveEmptyElseBranch", "MergeNestedParallelLoops",
   "RemoveLoopInvariantArgsFromBeforeBlock", "RemoveLoopInvariantValueYielded",
   "WhileUnusedResult", "WhileRemoveDuplicatedResults", "WhileRemoveUnusedArgs",
   "WhileOpAlignBeforeArgs"}

\* Value v names a result of an operation of G or an argument of a block
\* of G.
Live(G, v) ==
  \/ v.k = "res" /\ v.id \in DOMAIN G.ops /\ v.i \in 1 .. getNumResults(G, v.id)
  \/ v.k = "arg" /\ v.id \in DOMAIN G.blocks /\ v.i \in 1 .. Len(G.blocks[v.id].args)

NoDanglingOperand(G) ==
  \A o \in DOMAIN G.ops : \A j \in DOMAIN G.ops[o].operands : Live(G, G.ops[o].operands[j])

\* C13: after a successful application of a pattern that substitutes a new
\* op for the matched op, the matched op is no longer in the graph, no former
\* use of its results still reads them, and no operand refers to a result or
\* block argument of an erased op or block.
C13_SubstitutionComplete ==
  (last.ok /\ last.pattern \in SubstitutingPatterns) =>
    /\ last.op \notin DOMAIN ir.ops
    /\ \A i \in 1 .. getNumResults(pre, last.op) :
         \A u \in getUses(pre, Res(last.op, i)) :
           u[1] \in DOMAIN ir.ops => ir.ops[u[1]].operands[u[2]] # Res(last.op, i)
    /\ NoDanglingOperand(ir)

\* The operations enclosing operation u, u itself included.
RECURSIVE Ancestors(_, _)
Ancestors(G, u) ==
  LET p == getParentOp(G, getBlock(G, u))
  IN IF getBlock(G, u) = 0 \/ p = -1 THEN {u} ELSE {u} \cup Ancestors(G, p)

\* The blocks a block branches to.
Successors(G, b) ==
  IF G.blocks[b].ops = <<>> THEN {}
  ELSE LET t == G.blocks[b].ops[Len(G.blocks[b].ops)]
       IN IF G.ops[t].kind = "cf.br" THEN {G.ops[t].attr[1]} ELSE {}

\* The blocks reachable from the blocks in `seen` without entering `avoid`.
RECURSIVE ReachableAvoiding(_, _, _)
ReachableAvoiding(G, seen, avoid) ==
  LET more == (UNION {Successors(G, b) : b \in seen} \ {avoid}) \ seen
  IN IF more = {} THEN seen ELSE ReachableAvoiding(G, seen \cup more, avoid)

\* Block a dominates block b of the same region: every path from the entry
\* block of the region to b goes through a.
BlockDominates(G, a, b) ==
  \/ a = b
  \/ LET o == getParentOp(G, a)
         r == getParentRegion(G, Arg(a, 1))[2]
         entry == G.ops[o].regions[r][1]
     IN /\ o # -1
        /\ getParentRegion(G, Arg(b, 1)) = <<o, r>>
        /\ a = entry \/ b \notin ReachableAvoiding(G, {entry}, a)

\* The definition of value v dominates its use by operation u.
Dominates(G, v, u) ==
  IF v.k = "res"
  THEN /\ v.id \in DOMAIN G.ops
       /\ \E a \in Ancestors(G, u) :
            LET bd == getBlock(G, v.id)
                ba == getBlock(G, a)
            IN IF ba = bd
               THEN IndexOf(G.blocks[bd].ops, v.id) < IndexOf(G.blocks[bd].ops, a)
               ELSE bd # 0 /\ ba # 0 /\ BlockDominates(G, bd, ba)
  ELSE /\ v.k = "arg"
       /\ v.id \in DOMAIN G.blocks
       /\ \E a \in Ancestors(G, u) : getBlock(G, a) # 0 /\ BlockDominates(G, v.id, getBlock(G, a))

\* Every use in the function is dominated by its definition.
EveryUseDominated(G) ==
  \A u \in Attached(G) : \A j \in DOMAIN G.ops[u].operands :
    Dominates(G, G.ops[u].operands[j], u)

\* The operations of graph H that graph G does not have.
NewOps(G, H) == (DOMAIN H.ops \ DOMAIN G.ops) \cap Attached(H)

\* C14: after any sequence of successful applications on a graph in which
\* every use is dominated by its definition, every use is still dominated by
\* its definition; in particular the operands of the operations a pattern
\* creates (selects, and-ed conditions, yields) are defined before them.
C14_DominancePreserved == EveryUseDominated(ir)

\* C14 witness: CombineNestedIfs created the and-ed condition and a select in
\* front of the new If, their operands are defined before them, and every
\* use of the function is dominated.
C14_Witness ==
  /\ Applied("CombineNestedIfs")
  /\ \E a, s \in NewOps(pre, ir) :
       /\ ir.ops[a].kind = "arith.andi" /\ ir.ops[s].kind = "arith.select"
       /\ \A j \in 1 .. 3 : Dominates(ir, ir.ops[s].operands[j], s)
       /\ \E u \in Attached(ir) : Res(s, 1) \in Range(ir.ops[u].operands)
  /\ EveryUseDominated(ir)

\* The terminator of region r of a construct.
TerminatorOf(kind, r) ==
  CASE kind = "scf.for" -> "scf.yield"
    [] kind = "scf.if" -> "scf.yield"
    [] kind = "scf.while" -> IF r = 1 THEN "scf.condition" ELSE "scf.yield"
    [] kind = "scf.parallel" -> "scf.reduce"
    [] OTHER -> "scf.forall.in_parallel"

\* Every block of for / if / while / parallel / forall operation o ends with
\* the terminator of its construct.
BlocksTerminated(G, o) ==
  \A r \in DOMAIN G.ops[o].regions : \A k \in DOMAIN G.ops[o].regions[r] :
    LET b == G.ops[o].regions[r][k]
    IN /\ G.blocks[b].ops # <<>>
       /\ G.ops[getTerminator(G, b)].kind = TerminatorOf(G.ops[o].kind, r)

\* C15: every build overload of For, If, While, Parallel and Forall returns
\* a node in which each block it created ends with the construct's
\* terminator, for every combination of arguments, a non-empty list of init
\* values or result types together with no body callback included.
C15_BuildsTerminate ==
  \A o \in Attached(ir) :
    ir.ops[o].kind \in {"scf.for", "scf.if", "scf.while", "scf.parallel", "scf.forall"}
      => BlocksTerminated(ir, o)

\* The For operations of ir that the last call created.
CreatedLoops == OpsOfKind(ir, "scf.for") \ DOMAIN pre.ops

\* The last step was a call of buildLoopNest that kept its assertions.
LoopNestBuilt ==
  last.pattern \in {"buildLoopNest", "buildLoopNest(no iterArgs)"} /\ ~last.ub

\* C16: buildLoopNest with n >= 1 bound triples and k iteration arguments
\* creates exactly n For ops; loop j+1 is the first operation in the body of
\* loop j; loop 0 takes the caller's iterArgs as inits and loop j+1 the
\* region iter args of loop j; every non-innermost loop yields exactly the
\* results of the loop nested in it; the innermost loop yields the k values
\* returned by the body callback, called once with the n induction variables
\* in nesting order and the innermost iter args; the returned results are
\* the k results of the outermost loop.
C16_LoopNestShape ==
  (LoopNestBuilt /\ last.n >= 1 /\ last.bodyBuilder # "null") =>
    LET n == last.n
        k == Len(last.iterArgs)
        loops == last.loops
    IN /\ Len(loops) = n
       /\ Range(loops) = CreatedLoops
       /\ Cardinality(CreatedLoops) = n
       /\ getBlock(ir, loops[1]) = EntryBlock
       /\ getInitArgs(ir, loops[1]) = last.iterArgs
       /\ \A j \in 1 .. n :
            /\ getLowerBound(ir, loops[j]) = LoopNestLbs[j]
            /\ getUpperBound(ir, loops[j]) = LoopNestUbs[j]
            /\ getStep(ir, loops[j]) = LoopNestSteps[j]
            /\ getNumResults(ir, loops[j]) = k
            /\ Len(getRegionIterArgs(ir, loops[j])) = k
       /\ \A j \in 1 .. n - 1 :
            /\ Head(ir.blocks[getBody(ir, loops[j])].ops) = loops[j + 1]
            /\ getInitArgs(ir, loops[j + 1]) = getRegionIterArgs(ir, loops[j])
            /\ ir.ops[getTerminator(ir, getBody(ir, loops[j]))].kind = "scf.yield"
            /\ getYieldedValues(ir, loops[j]) = getResults(ir, loops[j + 1])
       /\ Len(last.calls) = 1
       /\ last.calls[1].ivs = [j \in 1 .. n |-> Arg(getBody(ir, loops[j]), 1)]
       /\ last.calls[1].args = getRegionIterArgs(ir, loops[n])
       /\ ir.ops[getTerminator(ir, getBody(ir, loops[n]))].kind = "scf.yield"
       /\ getYieldedValues(ir, loops[n]) = last.calls[1].results
       /\ Len(last.calls[1].results) = k
       /\ last.results = getResults(ir, loops[1])
       /\ Len(last.results) = k

\* C16 witness: a nest of three loops with two iteration arguments whose
\* callback computes the yielded values from the induction variables.
C16_Witness ==
  /\ LoopNestBuilt
  /\ last.n = 3 /\ Len(last.iterArgs) = 2 /\ last.bodyBuilder = "compute"
  /\ Cardinality(CreatedLoops) = 3
  /\ Len(last.results) = 2

\* C17: buildLoopNest with empty bound lists creates no For op: it calls the
\* body callback exactly once with no induction variables and the caller's
\* iterArgs and returns no loops together with exactly the values the
\* callback returned (no values when no callback is given).
C17_EmptyLoopNest ==
  (LoopNestBuilt /\ last.n = 0) =>
    /\ CreatedLoops = {}
    /\ last.loops = <<>>
    /\ IF last.pattern = "buildLoopNest" /\ last.bodyBuilder = "null"
       THEN last.calls = <<>> /\ last.results = <<>> /\ ir = pre
       ELSE /\ Len(last.calls) = 1
            /\ last.calls[1].ivs = <<>>
            /\ last.calls[1].args = last.iterArgs
            /\ last.results = last.calls[1].results

\* C17 witness: a call with no bounds and two iteration arguments whose
\* callback creates an operation and returns its two results.
C17_Witness ==
  /\ LoopNestBuilt
  /\ last.n = 0 /\ Len(last.iterArgs) = 2 /\ last.bodyBuilder = "compute"
  /\ Len(last.results) = 2
  /\ \E o \in DOMAIN ir.ops \ DOMAIN pre.ops : last.results = getResults(ir, o)


\* The regions (or Parent) a successor list leads to.
Targets(successors) == {successors[i].region : i \in DOMAIN successors}

\* The state answers a getSuccessorRegions query on a loop.
LoopSuccessorsAnswered ==
  last.pattern \in {"ForOp::getSuccessorRegions",
                    "ForallOp::getSuccessorRegions",
                    "WhileOp::getSuccessorRegions"}

\* C18 (as stated): for each of For, While and Forall, queried from the
\* parent getSuccessorRegions reports a loop region, and queried from a loop
\* region it reports both a loop region (the back-edge) and the parent.
C18_BodyReachesItselfAndParent ==
  LoopSuccessorsAnswered =>
    LET loopRegions == 1 .. Len(ir.ops[last.op].regions)
    IN /\ Targets(last.successors) \cap loopRegions # {}
       /\ last.point # Parent => Parent \in Targets(last.successors)

\* C18 (amended): a For reports its body and the parent from either point; a
\* Forall reports only its body from the parent and only the parent from its
\* body; a While reports only the before region from the parent and from the
\* after region, and the parent and the after region from the before region.
C18_LoopSuccessors ==
  LET to == Targets(last.successors)
      inputsOf(r) == {last.successors[i].inputs :
                        i \in {j \in DOMAIN last.successors :
                                 last.successors[j].region = r}}
      args(r) == ir.blocks[ir.ops[last.op].regions[r][1]].args
      blockArgs(r, from) ==
        [i \in 1 .. Len(args(r)) - from |->
           Arg(ir.ops[last.op].regions[r][1], i + from)]
  IN /\ last.pattern = "ForOp::getSuccessorRegions" =>
          /\ to = {1, Parent}
          /\ inputsOf(1) = {blockArgs(1, 1)}
          /\ inputsOf(Parent) = {getResults(ir, last.op)}
     /\ last.pattern = "ForallOp::getSuccessorRegions" =>
          /\ last.point = Parent => to = {1}
          /\ last.point = 1 => to = {Parent}
     /\ last.pattern = "WhileOp::getSuccessorRegions" =>
          /\ last.point \in {Parent, 2} =>
               to = {1} /\ inputsOf(1) = {blockArgs(1, 0)}
          /\ last.point = 1 =>
               /\ to = {Parent, 2}
               /\ inputsOf(2) = {blockArgs(2, 0)}
               /\ inputsOf(Parent) = {getResults(ir, last.op)}

\* A Forall queried from its body answers with the parent alone.
C18_Witness ==
  /\ last.pattern = "ForallOp::getSuccessorRegions"
  /\ last.point = 1
  /\ Targets(last.successors) = {Parent}


\* The branch a constant operand selects: a region of the op, or Parent for
\* a false If without else region.
TakenBranch(G, o, operand) ==
  IF G.ops[o].kind = "scf.if"
  THEN IF operand.i # 0 THEN 1 ELSE IF hasElse(G, o) THEN 2 ELSE Parent
  ELSE LET hits == {j \in DOMAIN getCases(G, o) :
                      getCases(G, o)[j] = operand.i}
       IN IF hits = {} THEN 1 ELSE 1 + MinOf(hits)

\* The regions of an op that hold a block.
NonEmptyRegions(G, o) ==
  {r \in 1 .. Len(G.ops[o].regions) : G.ops[o].regions[r] # <<>>}

\* An answer of getEntrySuccessorRegions: the taken branch alone for a
\* constant operand, every region otherwise.
EntrySuccessorsNarrowed ==
  IF last.operand # NullAttr
  THEN /\ Len(last.successors) = 1
       /\ last.successors[1].region = TakenBranch(ir, last.op, last.operand)
  ELSE NonEmptyRegions(ir, last.op) \subseteq Targets(last.successors)

\* An answer of getRegionInvocationBounds: one entry per region in region
\* order, [0,1] for the taken region and [0,0] for the others when the
\* operand is constant, [0,1] for every region otherwise.
InvocationBoundsNarrowed ==
  /\ Len(last.bounds) = Len(ir.ops[last.op].regions)
  /\ \A r \in NonEmptyRegions(ir, last.op) :
       last.bounds[r] =
         IF last.operand = NullAttr
            \/ r = TakenBranch(ir, last.op, last.operand)
         THEN <<0, 1>> ELSE <<0, 0>>

\* C19: for an If with a constant condition and an IndexSwitch with a
\* constant selector, getEntrySuccessorRegions returns exactly the taken
\* branch and getRegionInvocationBounds gives, in region order, upper bound
\* 1 to the taken region and [0,0] to every other region; with a
\* non-constant operand every region is a successor with bounds [0,1].
C19_ConstantOperandNarrows ==
  /\ last.pattern \in {"IfOp::getEntrySuccessorRegions",
                       "IndexSwitchOp::getEntrySuccessorRegions"} =>
       EntrySuccessorsNarrowed
  /\ last.pattern \in {"IfOp::getRegionInvocationBounds",
                       "IndexSwitchOp::getRegionInvocationBounds"} =>
       InvocationBoundsNarrowed


\* C20: IfOp::fold performs no mutation of the graph: after the call the
\* If has the condition operand and the then and else blocks it had before,
\* whether the call returns success or failure.
C20_FoldMutatesNothing ==
  last.pattern = "IfOp::fold" =>
    /\ getCondition(ir, last.op) = getCondition(pre, last.op)
    /\ ir.ops[last.op].regions = pre.ops[last.op].regions


\* C21: IndexSwitchOp::verify fails when the number of case values differs
\* from the number of case regions, when a case value occurs twice, when a
\* region does not end in a yield, or when the yield's operands differ in
\* number or types from the results; it succeeds in every other case.
C21_SwitchVerifier ==
  last.pattern = "IndexSwitchOp::verify" =>
    LET o == last.op
        regions == ir.ops[o].regions
        cases == ir.ops[o].attr
        yielded(r) == ir.ops[getTerminator(ir, regions[r][1])]
        wellFormed ==
          /\ Len(cases) = Len(regions) - 1
          /\ Cardinality({cases[i] : i \in DOMAIN cases}) = Len(cases)
          /\ \A r \in DOMAIN regions :
               /\ yielded(r).kind = "scf.yield"
               /\ [i \in DOMAIN yielded(r).operands |->
                     getType(ir, yielded(r).operands[i])] = ir.ops[o].types
    IN last.ok <=> wellFormed

\* The verifier rejects a switch whose regions and yields are in order but
\* whose case values repeat.
C21_Witness ==
  /\ last.pattern = "IndexSwitchOp::verify"
  /\ ~last.ok
  /\ ir.ops[last.op].attr = <<1, 1>>
  /\ Len(ir.ops[last.op].regions) = 3
  /\ \A r \in 1 .. 3 :
       ir.ops[getTerminator(ir, ir.ops[last.op].regions[r][1])].operands
         = <<Res(3, 1)>>
  /\ ir.ops[last.op].types = <<"i64">>


\* C22: MergeNestedParallelLoops succeeds only if the outer body is one
\* inner parallel loop plus the terminator, no bound or step of the inner
\* loop is an induction variable of the outer loop and neither loop has init
\* values; the merged loop's lower bounds, upper bounds and steps are the
\* outer lists followed by the inner lists, and in the copied inner body the
\* outer induction variable i is block argument i and the inner induction
\* variable i block argument (outer rank + i).
C22_MergeNestedParallelLoops ==
  Applied("MergeNestedParallelLoops") =>
    LET op == last.op
        outerBody == getBody(pre, op)
        innerOp == pre.blocks[outerBody].ops[1]
        innerBody == getBody(pre, innerOp)
        outerIvs == {Arg(outerBody, i) : i \in DOMAIN pre.blocks[outerBody].args}
        nOuter == Len(pre.blocks[outerBody].args)
        newOp == pre.next
        newBody == getBody(ir, newOp)
        mapped_(v) ==
          IF v.k = "arg" /\ v.id = outerBody THEN Arg(newBody, v.i)
          ELSE IF v.k = "arg" /\ v.id = innerBody THEN Arg(newBody, nOuter + v.i)
          ELSE v
        copied == without_terminator(ir, newBody)
        original == without_terminator(pre, innerBody)
    IN /\ Len(pre.blocks[outerBody].ops) = 2
       /\ pre.ops[innerOp].kind = "scf.parallel"
       /\ pre.ops[pre.blocks[outerBody].ops[2]].kind = "scf.reduce"
       /\ \A j \in 1 .. 3 :
            \A k \in DOMAIN getODSOperands(pre, innerOp, j) :
              getODSOperands(pre, innerOp, j)[k] \notin outerIvs
       /\ getInitVals(pre, op) = <<>> /\ getInitVals(pre, innerOp) = <<>>
       /\ op \notin DOMAIN ir.ops
       /\ ir.ops[newOp].kind = "scf.parallel"
       /\ \A j \in 1 .. 3 :
            getODSOperands(ir, newOp, j)
              = getODSOperands(pre, op, j) \o getODSOperands(pre, innerOp, j)
       /\ Len(ir.blocks[newBody].args)
            = nOuter + Len(pre.blocks[innerBody].args)
       /\ Len(copied) = Len(original)
       /\ \A k \in DOMAIN original :
            /\ ir.ops[copied[k]].kind = pre.ops[original[k]].kind
            /\ ir.ops[copied[k]].operands
                 = [i \in DOMAIN pre.ops[original[k]].operands |->
                      mapped_(pre.ops[original[k]].operands[i])]

\* A merge of two one-dimensional loops whose inner body reads both
\* induction variables.
C22_Witness ==
  /\ Applied("MergeNestedParallelLoops")
  /\ LET innerBody == getBody(pre, pre.blocks[getBody(pre, last.op)].ops[1])
     IN \E k \in DOMAIN pre.blocks[innerBody].ops :
          pre.ops[pre.blocks[innerBody].ops[k]].operands
            = <<Arg(getBody(pre, last.op), 1), Arg(innerBody, 1)>>
  /\ Len(ir.blocks[getBody(ir, pre.next)].args) = 2


\* The run started from the if with matching yields: the constant 9 is in
\* the graph.
MatchingYieldsRun ==
  2 \in DOMAIN ir.ops /\ ir.ops[2] = ConstantOp("i64", 9)

\* In the run of the if with matching yields, the former uses of result 0
\* use the constant 9 and those of result 1 use %v once no pattern matches.
MatchingYieldsForwarded ==
  (MatchingYieldsRun /\ NoIfPatternMatches(ir)) =>
    ir.ops[11].operands = <<Res(2, 1), Arg(1, 2)>>

\* C23: from `if %c { yield 9, %v } else { yield 9, %v }` with both results
\* used, applying the If patterns until none matches ends in a graph in
\* which every former use of result 0 uses the constant 9, every former use
\* of result 1 uses %v, and no If remains.
C23_MatchingYieldsEliminated ==
  (MatchingYieldsRun /\ NoIfPatternMatches(ir)) =>
    /\ ir.ops[11].operands = <<Res(2, 1), Arg(1, 2)>>
    /\ OpsOfKind(ir, "scf.if") = {}


\* The before-block arguments of While o that are loop invariants when an
\* argument may also be proven invariant through another one: argument i is
\* in the set when its yield operand is its init operand, or is after-block
\* argument k whose condition operand is before-block argument i, init
\* operand i, or a before-block argument j of the set with the same init
\* operand.
RECURSIVE ChainedInvariantArgs(_, _, _)
ChainedInvariantArgs(G, o, known) ==
  LET condArgs == getConditionArgs(G, o)
      proven(i) ==
        LET init == G.ops[o].operands[i]
            y == G.ops[getYieldOp(G, o)].operands[i]
        IN \/ y = init
           \/ \E k \in DOMAIN condArgs :
                /\ y = Arg(getAfterBody(G, o), k)
                /\ \/ condArgs[k] = Arg(getBeforeBody(G, o), i)
                   \/ condArgs[k] = init
                   \/ \E j \in known :
                        /\ condArgs[k] = Arg(getBeforeBody(G, o), j)
                        /\ G.ops[o].operands[j] = init
      next == {i \in DOMAIN G.ops[o].operands : proven(i)}
  IN IF next = known THEN known ELSE ChainedInvariantArgs(G, o, next)

\* The first application left before-block arguments only where none is
\* invariant: a second application returns failure.
SecondApplicationFails ==
  (Applied("RemoveLoopInvariantArgsFromBeforeBlock") /\ steps = 1) =>
    ~RemoveLoopInvariantArgsFromBeforeBlock(ir, pre.next + 1).ok

\* C24: one application of RemoveLoopInvariantArgsFromBeforeBlock removes
\* every loop-invariant before-block argument, an argument that forwards
\* another invariant argument included; a second application fails.
C24_ChainedInvariantsInOnePass ==
  (Applied("RemoveLoopInvariantArgsFromBeforeBlock") /\ steps = 1) =>
    /\ Len(ir.blocks[getBeforeBody(ir, pre.next + 1)].args)
         = Len(pre.ops[last.op].operands)
           - Cardinality(ChainedInvariantArgs(pre, last.op, {}))
    /\ ~RemoveLoopInvariantArgsFromBeforeBlock(ir, pre.next + 1).ok


\* Iter arg i of For o is forwarded: its region argument or its init operand
\* is yielded, or neither the region argument nor the result has a use.
ForwardedIterArg(G, o, i) ==
  \/ getRegionIterArgs(G, o)[i] = getYieldedValues(G, o)[i]
  \/ getInitArgs(G, o)[i] = getYieldedValues(G, o)[i]
  \/ use_empty(G, getRegionIterArgs(G, o)[i]) /\ use_empty(G, Res(o, i))

\* The non-forwarded positions before j with the init operand and the
\* yielded value of position j.
SameIterArgsBefore(G, o, j) ==
  {i \in 1 .. j - 1 :
     /\ ~ForwardedIterArg(G, o, i)
     /\ getInitArgs(G, o)[i] = getInitArgs(G, o)[j]
     /\ getYieldedValues(G, o)[i] = getYieldedValues(G, o)[j]}

\* The position whose region argument and result stand for position i after
\* the fold: 0 when i is forwarded (the init operand stands for it), the
\* first position with the same init operand and yielded value otherwise.
SurvivingIterArg(G, o, i) ==
  IF ForwardedIterArg(G, o, i) THEN 0
  ELSE IF SameIterArgsBefore(G, o, i) # {} THEN MinOf(SameIterArgsBefore(G, o, i))
  ELSE i

\* The rewritten loop returns what the original loop returns, for every
\* upper bound and init value.
ForOpIterArgsFolderSound ==
  Applied("ForOpIterArgsFolder") => Equivalent(pre, ir)

\* C25: ForOpIterArgsFolder folds an iter arg to its init operand when it is
\* forwarded; of two non-folded iter args i < j with the same init operand
\* and the same yielded value only i is kept and the uses of region argument
\* j and result j go to region argument i and result i; the kept positions
\* keep their order and the rewritten loop returns the original results for
\* every trip count.
C25_IterArgsFolded ==
  Applied("ForOpIterArgsFolder") =>
    LET op == last.op
        n == getNumResults(pre, op)
        newOp == pre.next
        keep == [i \in 1 .. n |-> SurvivingIterArg(pre, op, i) = i]
        newResult(i) ==
          IF SurvivingIterArg(pre, op, i) = 0 THEN getInitArgs(pre, op)[i]
          ELSE Res(newOp, Count(keep, SurvivingIterArg(pre, op, i)))
        newArg(i) ==
          IF SurvivingIterArg(pre, op, i) = 0 THEN getInitArgs(pre, op)[i]
          ELSE getRegionIterArgs(ir, newOp)[Count(keep, SurvivingIterArg(pre, op, i))]
    IN /\ op \notin DOMAIN ir.ops
       /\ ir.ops[newOp].kind = "scf.for"
       /\ getInitArgs(ir, newOp) = Filter(getInitArgs(pre, op), keep)
       /\ \A i \in 1 .. n :
            /\ \A u \in getUses(pre, Res(op, i)) :
                 ir.ops[u[1]].operands[u[2]] = newResult(i)
            /\ \A u \in getUses(pre, getRegionIterArgs(pre, op)[i]) :
                 u[1] \in DOMAIN ir.ops =>
                   ir.ops[u[1]].operands[u[2]] = newArg(i)
       /\ Equivalent(pre, ir)


\* The value v is xor(x, constant 1).
NegationOperand(G, v) ==
  IF /\ v.k = "res"
     /\ G.ops[v.id].kind = "arith.xori"
     /\ G.ops[v.id].operands[2].k = "res"
     /\ G.ops[G.ops[v.id].operands[2].id].kind = "arith.constant"
     /\ G.ops[G.ops[v.id].operands[2].id].attr = <<1>>
  THEN {G.ops[v.id].operands[1]}
  ELSE {}

\* The Ifs with an else region whose condition is xor(x, constant 1).
NegatedIfs(G) ==
  {o \in OpsOfKind(G, "scf.if") :
     G.ops[o].regions[2] # <<>> /\ NegationOperand(G, G.ops[o].operands[1]) # {}}

\* The results of the If patterns other than the fold on one If.
OtherIfPatternResults(G, o) ==
  {CombineIfs(G, o), CombineNestedIfs(G, o), ConvertTrivialIfToSelect(G, o),
   RemoveEmptyElseBranch(G, o), RemoveStaticCondition(G, o),
   RemoveUnusedResults(G, o), ReplaceIfYieldWithConditionOrValue(G, o)}

\* No other pattern applied to the folded form of If o makes o, or an If it
\* creates, an If on a negation that was not there.
NoNegationRecreated(G, o) ==
  LET F == IfOp_fold(G, o).g
  IN \A r \in OtherIfPatternResults(F, o) :
       r.ok =>
         \A o2 \in NegatedIfs(r.g) :
           (o2 = o \/ o2 >= F.next) =>
             \E o3 \in NegatedIfs(F) : F.ops[o3].operands = r.g.ops[o2].operands

\* C26: IfOp::fold succeeds exactly on an If with an else region whose
\* condition is xor(x, constant 1); it makes x the condition and exchanges
\* the then and else blocks, so the results are unchanged for both values of
\* x; on xor(xor(x, 1), 1) two folds restore the branch order with condition
\* x; no other pattern re-creates a negated condition from the folded form.
C26_FoldOfNegatedCondition ==
  /\ \A o \in OpsOfKind(ir, "scf.if") :
       /\ IfOp_fold(ir, o).ok <=> o \in NegatedIfs(ir)
       /\ o \in NegatedIfs(ir) =>
            /\ NoNegationRecreated(ir, o)
            /\ \A x \in NegationOperand(ir, getCondition(ir, o)) :
                 \A y \in NegationOperand(ir, x) :
                   LET twice == IfOp_fold(IfOp_fold(ir, o).g, o)
                   IN /\ twice.ok
                      /\ getCondition(twice.g, o) = y
                      /\ twice.g.ops[o].regions = ir.ops[o].regions
  /\ Applied("IfOp::fold") =>
       /\ NegationOperand(pre, getCondition(pre, last.op))
            = {getCondition(ir, last.op)}
       /\ ir.ops[last.op].regions
            = <<pre.ops[last.op].regions[2], pre.ops[last.op].regions[1]>>
       /\ Equivalent(pre, ir)

\* The second fold of an If on xor(xor(c, 1), 1): the condition is c and the
\* branches are back in their first order.
C26_Witness ==
  /\ Applied("IfOp::fold")
  /\ steps = 2
  /\ getCondition(ir, last.op) = Arg(1, 1)
  /\ ir.ops[last.op].regions = <<<<6>>, <<7>>>>
  /\ NegationOperand(pre, getCondition(pre, last.op)) = {Arg(1, 1)}


\* The bounds, steps and carried values of a forall or parallel loop, and the
\* result of the dimension folder of its kind.
DimsLbs(G, o) ==
  IF G.ops[o].kind = "scf.forall" THEN getMixedLowerBound(G, o)
  ELSE ParallelOp_getLowerBound(G, o)
DimsUbs(G, o) ==
  IF G.ops[o].kind = "scf.forall" THEN getMixedUpperBound(G, o)
  ELSE ParallelOp_getUpperBound(G, o)
DimsSteps(G, o) ==
  IF G.ops[o].kind = "scf.forall" THEN getMixedStep(G, o) ELSE ParallelOp_getStep(G, o)
DimsCarried(G, o) ==
  IF G.ops[o].kind = "scf.forall" THEN getOutputs(G, o) ELSE getInitVals(G, o)
DimsFolderResults(G, o) ==
  IF G.ops[o].kind = "scf.forall"
  THEN {ForallOpSingleOrZeroIterationDimsFolder(G, o, a) : a \in BOOLEAN}
  ELSE {ParallelOpSingleOrZeroIterationDimsFolder(G, o)}
DimsMapped(G, o) == G.ops[o].kind = "scf.forall" /\ G.ops[o].attr.mapping # <<>>

DimsTrip(G, o) ==
  [d \in DOMAIN DimsLbs(G, o) |->
     constantTripCount(G, DimsLbs(G, o)[d], DimsUbs(G, o)[d], DimsSteps(G, o)[d])]
DimsZero(G, o) == \E d \in DOMAIN DimsTrip(G, o) : DimsTrip(G, o)[d] = [known |-> TRUE, n |-> 0]
DimsKeep(G, o) ==
  [d \in DOMAIN DimsTrip(G, o) |-> DimsTrip(G, o)[d] # [known |-> TRUE, n |-> 1]]
DimsKept(G, o) == {d \in DOMAIN DimsKeep(G, o) : DimsKeep(G, o)[d]}

\* The expression a value stands for: the operation that defines it applied
\* to the expressions of its operands, after the substitution sub of block
\* arguments.  A constant and the attribute of the same value are one
\* expression.
LeafTerm(v) == [kind |-> "value", attr |-> <<>>, i |-> 0, args |-> <<>>, v |-> v]
ConstTerm(n) ==
  [kind |-> "arith.constant", attr |-> <<n>>, i |-> 1, args |-> <<>>, v |-> NullValue]
RECURSIVE TermOf(_, _, _)
TermOf(G, v, sub) ==
  IF v \in DOMAIN sub THEN sub[v]
  ELSE IF v.k = "attr" THEN ConstTerm(v.i)
  ELSE IF v.k = "res" /\ v.id \in DOMAIN G.ops
  THEN [kind |-> G.ops[v.id].kind,
        attr |-> IF G.ops[v.id].regions = <<>> THEN G.ops[v.id].attr ELSE <<>>,
        i |-> v.i,
        args |-> [j \in DOMAIN G.ops[v.id].operands |->
                    TermOf(G, G.ops[v.id].operands[j], sub)],
        v |-> NullValue]
  ELSE LeafTerm(v)
OpTerm(G, o, sub) ==
  [kind |-> G.ops[o].kind,
   attr |-> IF G.ops[o].regions = <<>> THEN G.ops[o].attr ELSE <<>>,
   args |-> [j \in DOMAIN G.ops[o].operands |-> TermOf(G, G.ops[o].operands[j], sub)]]
NoSub == [v \in {} |-> v]

\* The substitution of the body arguments of loop o of G: a removed
\* induction variable reads its lower bound, a kept one the induction
\* variable of the same relative position of block newBody, and the other
\* arguments follow the kept induction variables (or, without a new body,
\* read the carried values).
DimsSub(G, o, newBody) ==
  LET B == getBody(G, o)
      n == Len(DimsLbs(G, o))
      kept == DimsKept(G, o)
  IN [v \in {Arg(B, j) : j \in 1 .. Len(G.blocks[B].args)} |->
        IF v.i <= n
        THEN IF v.i \in kept
             THEN LeafTerm(Arg(newBody, Cardinality({d \in kept : d <= v.i})))
             ELSE TermOf(G, DimsLbs(G, o)[v.i], NoSub)
        ELSE IF newBody = 0 THEN TermOf(G, DimsCarried(G, o)[v.i - n], NoSub)
        ELSE LeafTerm(Arg(newBody, v.i - n + Cardinality(kept)))]

\* The loop new of H is loop o of G without its dimensions of one iteration.
DimsRemoved(G, H, o, new) ==
  /\ H.ops[new].kind = G.ops[o].kind
  /\ DimsLbs(H, new) = Filter(DimsLbs(G, o), DimsKeep(G, o))
  /\ DimsUbs(H, new) = Filter(DimsUbs(G, o), DimsKeep(G, o))
  /\ DimsSteps(H, new) = Filter(DimsSteps(G, o), DimsKeep(G, o))
  /\ DimsCarried(H, new) = DimsCarried(G, o)
  /\ UsesReplacedBy(G, H, o, getResults(H, new))
  /\ LET old == G.blocks[getBody(G, o)].ops
         ops == H.blocks[getBody(H, new)].ops
     IN /\ Len(ops) = Len(old)
        /\ \A k \in DOMAIN old :
             OpTerm(H, ops[k], NoSub) = OpTerm(G, old[k], DimsSub(G, o, getBody(H, new)))

\* Every operation of the body of loop o of G stands once in H in the block
\* that held the loop, its induction variables read as the lower bounds.
DimsInlinedOnce(G, H, o) ==
  \A b \in Range(without_terminator(G, getBody(G, o))) :
    Cardinality({c \in Range(H.blocks[getBlock(G, o)].ops) :
                   OpTerm(H, c, NoSub) = OpTerm(G, b, DimsSub(G, o, 0))}) = 1

\* Every use of result i of parallel loop o of G reads in H reduction body i
\* applied to init value i and reduced operand i.
DimsReduced(G, H, o) ==
  LET red == getTerminator(G, getBody(G, o))
  IN \A i \in 1 .. getNumResults(G, o) :
       LET rb == G.ops[red].regions[i][1]
           ret == G.ops[getTerminator(G, rb)].operands[1]
           sub == (Arg(rb, 1) :> TermOf(G, getInitVals(G, o)[i], NoSub))
                  @@ (Arg(rb, 2) :> TermOf(G, G.ops[red].operands[i], DimsSub(G, o, 0)))
       IN \A u \in getUses(G, Res(o, i)) :
            /\ u[1] \in DOMAIN H.ops
            /\ TermOf(H, H.ops[u[1]].operands[u[2]], NoSub) = TermOf(G, ret, sub)

DimsFolderEffect(G, H, o) ==
  IF DimsZero(G, o)
  THEN o \notin DOMAIN H.ops /\ UsesReplacedBy(G, H, o, DimsCarried(G, o))
  ELSE IF DimsKept(G, o) = {}
  THEN /\ o \notin DOMAIN H.ops
       /\ DimsInlinedOnce(G, H, o)
       /\ G.ops[o].kind = "scf.parallel" => DimsReduced(G, H, o)
  ELSE /\ o \notin DOMAIN H.ops
       /\ \E new \in DOMAIN H.ops \ DOMAIN G.ops : DimsRemoved(G, H, o, new)

DimsFolderApplied ==
  Applied("ForallOpSingleOrZeroIterationDimsFolder")
    \/ Applied("ParallelOpSingleOrZeroIterationDimsFolder")

\* Every successful application of a dimension folder has the effect the
\* trip counts of the dimensions prescribe, and the folders fail on a mapped
\* forall and on a loop without a dimension of zero or one iteration.
DimsFolderSound ==
  /\ DimsFolderApplied => DimsFolderEffect(pre, ir, last.op)
  /\ ~last.ub =>
       \A o \in OpsOfKind(ir, "scf.forall") \cup OpsOfKind(ir, "scf.parallel") :
         (DimsMapped(ir, o)
            \/ (~DimsZero(ir, o) /\ DimsKept(ir, o) = DOMAIN DimsKeep(ir, o))) =>
           \A r \in DimsFolderResults(ir, o) : ~r.ok /\ ~r.ub

\* C27: ForallOpSingleOrZeroIterationDimsFolder and
\* ParallelOpSingleOrZeroIterationDimsFolder replace every result by the
\* output / init value when a dimension has trip count 0; otherwise they
\* remove each dimension of trip count 1, its induction variable replaced by
\* its lower bound, the other dimensions keeping bounds, steps and order;
\* with every dimension removed the body is inlined once and parallel result
\* i is reduction body i applied to (init value i, reduced operand i); they
\* fail without a dimension of trip count 0 or 1 and on a mapped forall.
C27_DimsFolded ==
  /\ DimsFolderSound
  /\ ~last.ub =>
       \A o \in OpsOfKind(ir, "scf.forall") \cup OpsOfKind(ir, "scf.parallel") :
         (~DimsMapped(ir, o)
            /\ (DimsZero(ir, o) \/ DimsKept(ir, o) # DOMAIN DimsKeep(ir, o))) =>
           \A r \in DimsFolderResults(ir, o) : r.ok


\* t lists the values of s in some order.
IsPermutation(s, t) ==
  /\ Len(s) = Len(t)
  /\ \A v \in Range(s) \cup Range(t) :
       Cardinality({i \in DOMAIN s : s[i] = v}) = Cardinality({i \in DOMAIN t : t[i] = v})

\* The condition-op arguments of While o can be aligned.
Alignable(G, o) ==
  /\ Cardinality(Range(getConditionArgs(G, o))) = Len(getConditionArgs(G, o))
  /\ IsPermutation(getBeforeArguments(G, o), getConditionArgs(G, o))
  /\ getConditionArgs(G, o) # getBeforeArguments(G, o)

\* Every use of value v in graph G reads value w in graph H.
UseReplacedBy(G, H, v, w) ==
  \A u \in getUses(G, v) : u[1] \in DOMAIN H.ops /\ H.ops[u[1]].operands[u[2]] = w

\* C28: WhileOpAlignBeforeArgs succeeds exactly when the condition-op
\* arguments are duplicate-free, a permutation of the before-block arguments
\* and not in their order; afterwards the condition op forwards the
\* before-block arguments in order, old result i and old after-block
\* argument i are replaced by the new result and after-block argument at the
\* position p with beforeArgs[p] = old conditionArgs[i], the program
\* computes the same results, and a second application fails.
C28_AlignBeforeArgs ==
  /\ \A o \in OpsOfKind(ir, "scf.while") :
       WhileOpAlignBeforeArgs(ir, o).ok <=> Alignable(ir, o)
  /\ Applied("WhileOpAlignBeforeArgs") =>
       LET op == last.op
           news == OpsOfKind(ir, "scf.while") \ DOMAIN pre.ops
       IN /\ op \notin DOMAIN ir.ops
          /\ Cardinality(news) = 1
          /\ \A new \in news :
               /\ getConditionArgs(ir, new) = getBeforeArguments(ir, new)
               /\ ir.ops[new].operands = pre.ops[op].operands
               /\ \A i \in DOMAIN getConditionArgs(pre, op) :
                    \A p \in DOMAIN getBeforeArguments(pre, op) :
                      getBeforeArguments(pre, op)[p] = getConditionArgs(pre, op)[i] =>
                        /\ UseReplacedBy(pre, ir, Res(op, i), Res(new, p))
                        /\ UseReplacedBy(pre, ir, Arg(getAfterBody(pre, op), i),
                                         Arg(getAfterBody(ir, new), p))
                        /\ ir.ops[new].types[p] = pre.ops[op].types[i]
               /\ ~WhileOpAlignBeforeArgs(ir, new).ok
          /\ Equivalent(pre, ir)

\* WhileOpAlignBeforeArgs has aligned a loop whose condition op forwarded
\* the before-block arguments 2, 3, 1: old result 1 is now result 2.
C28_Witness ==
  /\ Applied("WhileOpAlignBeforeArgs")
  /\ getConditionArgs(pre, last.op)
       = <<Arg(getBeforeBody(pre, last.op), 2), Arg(getBeforeBody(pre, last.op), 3),
           Arg(getBeforeBody(pre, last.op), 1)>>
  /\ \E new \in OpsOfKind(ir, "scf.while") :
       ir.ops[getTerminator(ir, EntryBlock)].operands
         = <<Res(new, 2), Res(new, 3), Res(new, 1)>>


\* The operands that differ between graph G and graph H.
ChangedUses(G, H) ==
  UNION {{<<o, j>> : j \in {i \in DOMAIN G.ops[o].operands :
                              H.ops[o].operands[i] # G.ops[o].operands[i]}}
         : o \in DOMAIN G.ops \cap DOMAIN H.ops}

\* Value v of graph H is the constant n.
IsConstantOf(H, v, n) ==
  v.k = "res" /\ H.ops[v.id].kind = "arith.constant" /\ H.ops[v.id].attr = <<n>>

\* Value v is an after-block argument of While o whose condition-op argument
\* is the loop condition itself.
ForwardsCondition(G, o, v) ==
  \E i \in DOMAIN getConditionArgs(G, o) :
    /\ v = Arg(getAfterBody(G, o), i)
    /\ getConditionArgs(G, o)[i] = G.ops[getConditionOp(G, o)].operands[1]

\* The loop condition of While o is a comparison cmp, and comparison cmp2
\* uses at some position p an after-block argument whose condition-op
\* argument is operand p of cmp, its other operand that of cmp.
RepeatsCondition(G, o, cmp2) ==
  LET c == G.ops[getConditionOp(G, o)].operands[1]
  IN /\ c.k = "res" /\ G.ops[c.id].kind = "arith.cmpi"
     /\ G.ops[cmp2].kind = "arith.cmpi"
     /\ \E p \in 1 .. 2 : \E i \in DOMAIN getConditionArgs(G, o) :
          /\ G.ops[cmp2].operands[p] = Arg(getAfterBody(G, o), i)
          /\ getConditionArgs(G, o)[i] = G.ops[c.id].operands[p]
          /\ G.ops[cmp2].operands[3 - p] = G.ops[c.id].operands[3 - p]

\* The constant that stands for cmp2 inside the after region of While o.
RepeatedConditionValue(G, o, cmp2) ==
  LET c == G.ops[getConditionOp(G, o)].operands[1]
  IN IF G.ops[cmp2].attr = G.ops[c.id].attr THEN 1 ELSE 0

\* C29: WhileConditionTruth replaces by constant true only uses of an
\* after-block argument whose condition-op argument is the loop condition;
\* WhileCmpCond replaces a comparison cmp2 by true (same predicate) or false
\* (inverted predicate) only when the loop condition is a comparison cmp,
\* cmp2 uses at position p an after-block argument whose condition-op
\* argument is cmp's operand p, and the other operands agree; the program
\* computes the same values in every execution.
C29_ConditionHoldsInAfterRegion ==
  /\ Applied("WhileConditionTruth") =>
       /\ DOMAIN pre.ops \subseteq DOMAIN ir.ops
       /\ ChangedUses(pre, ir) # {}
       /\ \A u \in ChangedUses(pre, ir) :
            /\ ForwardsCondition(pre, last.op, pre.ops[u[1]].operands[u[2]])
            /\ IsConstantOf(ir, ir.ops[u[1]].operands[u[2]], 1)
       /\ Equivalent(pre, ir)
  /\ Applied("WhileCmpCond") =>
       /\ DOMAIN pre.ops \ DOMAIN ir.ops # {}
       /\ \A cmp2 \in DOMAIN pre.ops \ DOMAIN ir.ops :
            /\ RepeatsCondition(pre, last.op, cmp2)
            /\ pre.ops[cmp2].attr[1]
                 \in {pre.ops[pre.ops[getConditionOp(pre, last.op)].operands[1].id].attr[1],
                      invertPredicate(
                        pre.ops[pre.ops[getConditionOp(pre, last.op)].operands[1].id].attr[1])}
            /\ \A u \in getUses(pre, Res(cmp2, 1)) :
                 IsConstantOf(ir, ir.ops[u[1]].operands[u[2]],
                              RepeatedConditionValue(pre, last.op, cmp2))
       /\ \A u \in ChangedUses(pre, ir) :
            pre.ops[u[1]].operands[u[2]].k = "res"
              /\ pre.ops[u[1]].operands[u[2]].id \notin DOMAIN ir.ops
       /\ Equivalent(pre, ir)

\* WhileCmpCond has replaced by false a comparison `sge a, x2` of the after
\* region of a loop whose condition `slt a, q` forwards q as second argument.
C29_Witness ==
  /\ Applied("WhileCmpCond")
  /\ pre.ops[12].operands = <<Arg(1, 1), Arg(10, 2)>>
  /\ getConditionArgs(pre, last.op)[2] = Arg(10, 2)
  /\ pre.ops[14] = CmpIOp(5, Arg(1, 1), Arg(11, 2))
  /\ IsConstantOf(ir, ir.ops[15].operands[1], 0)


\* The dynamic lower-bound, upper-bound and step operands of Forall o.
DynamicControlOperands(G, o) ==
  <<getDynamicLowerBound(G, o), getDynamicUpperBound(G, o), getDynamicStep(G, o)>>
MixedControlOperands(G, o) ==
  <<getMixedLowerBound(G, o), getMixedUpperBound(G, o), getMixedStep(G, o)>>

\* List k of Forall o holds a dynamic operand with a constant value.
ConstantControlOperand(G, o, k) ==
  \E i \in DOMAIN DynamicControlOperands(G, o)[k] :
    isConstant(G, DynamicControlOperands(G, o)[k][i])

\* Forall o of H is Forall o of G with the constant dynamic operands of
\* list k moved to the static attribute at the same dimension.
ControlOperandsMoved(G, H, o, k) ==
  /\ Len(MixedControlOperands(H, o)[k]) = Len(MixedControlOperands(G, o)[k])
  /\ \A d \in DOMAIN MixedControlOperands(G, o)[k] :
       LET x == MixedControlOperands(G, o)[k][d]
       IN MixedControlOperands(H, o)[k][d]
            = IF x.k # "attr" /\ isConstant(G, x)
              THEN IntAttr(getConstantIntValue(G, x)) ELSE x

\* The effect of one application on the first list with a constant dynamic
\* operand: that list is folded, the operand segment sizes are the new
\* dynamic operand counts plus the output count.
FirstControlListFolded ==
  Applied("ForallOpControlOperandsFolder") =>
    LET op == last.op
        k == MinOf({j \in 1 .. 3 : ConstantControlOperand(pre, op, j)})
    IN /\ ControlOperandsMoved(pre, ir, op, k)
       /\ \A j \in 1 .. 3 :
            j # k => MixedControlOperands(ir, op)[j] = MixedControlOperands(pre, op)[j]
       /\ getOutputs(ir, op) = getOutputs(pre, op)
       /\ ir.ops[op].attr.operandSegmentSizes
            = <<Len(getDynamicLowerBound(ir, op)), Len(getDynamicUpperBound(ir, op)),
                Len(getDynamicStep(ir, op)), Len(getOutputs(pre, op))>>

\* C30: ForallOpControlOperandsFolder succeeds exactly when a dynamic
\* lower-bound, upper-bound or step operand is a constant; after one
\* successful application no dynamic operand with a constant value remains
\* in any of the three lists, each is in the static attribute at the same
\* dimension, the operand segment sizes are the new dynamic operand counts
\* plus the output count, and a second application returns failure.
C30_ControlOperandsFolded ==
  /\ \A o \in OpsOfKind(ir, "scf.forall") :
       ForallOpControlOperandsFolder(ir, o).ok <=>
         \E k \in 1 .. 3 : ConstantControlOperand(ir, o, k)
  /\ Applied("ForallOpControlOperandsFolder") =>
       LET op == last.op
       IN /\ \A k \in 1 .. 3 :
               /\ ~ConstantControlOperand(ir, op, k)
               /\ ControlOperandsMoved(pre, ir, op, k)
          /\ ir.ops[op].attr.operandSegmentSizes
               = <<Len(getDynamicLowerBound(ir, op)), Len(getDynamicUpperBound(ir, op)),
                   Len(getDynamicStep(ir, op)), Len(getOutputs(pre, op))>>
          /\ ~ForallOpControlOperandsFolder(ir, op).ok

====
